---- MODULE Spec2Model ----
(***************************************************************************)
(* Model of the decision logic of auto-search-mvp:                         *)
(*   - the ingest-time anti-noise gate (services/ingest_quality.py),       *)
(*   - the rule-based query parser (services/query_parser.py),             *)
(*   - the ranking loop of SearchService.search (services/search_service). *)
(*                                                                         *)
(* A text is a sequence of atoms.  An atom is a homogeneous piece of a     *)
(* Python str: a run of letters (a word), a run of decimal digits, one     *)
(* whitespace character or one punctuation character.  Atoms are written   *)
(* in ASCII; the Cyrillic they stand for is given in the tables below.     *)
(* Adjacent atoms are adjacent in the string, so "40000" followed by "km"  *)
(* is the string 40000км and "40000","sp","km" is 40000 км.                *)
(***************************************************************************)
EXTENDS Integers, Sequences, FiniteSets, Bags, TLC

VARIABLES
    pc,          \* position of the modelled call: "call" before, "done" after
    text,        \* should_skip_doc: the text argument
    blacklist,   \* should_skip_doc: the blacklist argument
    decision,    \* should_skip_doc: what the call produced
    raw_text,    \* parse_query: the raw_text argument
    parsed,      \* parse_query: what the call produced
    structuredArg,  \* search: the structured argument
    storeAnswer,    \* search: what self.store.search does when called
    limitArg,       \* search: the limit argument
    nowDay,         \* search: the day of the call
    response,       \* search: what the call produced
    previous,       \* search: what the call before this one produced
    scoreCall,      \* _score_hit: the arguments of two calls and their instant
    scores,         \* _score_hit: what the two calls produced
    db,             \* the RawDocument table, the Qdrant collection, the
                    \* decisions should_skip_doc returned to run_ingest, the
                    \* fallback warnings of embed_text and the SkipStats
                    \* counter of the last run
    saleCall,       \* is_sale_intent: the text and min_score arguments
    saleAnswer,     \* is_sale_intent: what the call returned
    brandCall,      \* brand matching: the function called, its text and the
                    \* catalog loaded from brands.yaml
    brandAnswer,    \* brand matching: the (brand, confidence) returned
    tgCall,         \* fetch_telegram: the settings, the channels with their
                    \* messages, limit_per_channel and the brand whitelist
    tgAnswer,       \* fetch_telegram: what the call produced
    boostCall,      \* the source boosts: the source and text of one item
    boostAnswer     \* the source boosts: the boost written at ingest time and
                    \* the boost the ranking applied

gateVars == <<text, blacklist, decision>>
parseVars == <<raw_text, parsed>>
searchVars == <<structuredArg, storeAnswer, limitArg, nowDay, response, previous>>
scoreVars == <<scoreCall, scores>>
saleVars == <<saleCall, saleAnswer>>
brandVars == <<brandCall, brandAnswer>>
tgVars == <<tgCall, tgAnswer>>
boostVars == <<boostCall, boostAnswer>>
vars ==
    <<pc, gateVars, parseVars, searchVars, scoreVars, db, saleVars, brandVars, tgVars,
      boostVars>>

\* all sequences over A of length at most n
SeqsUpTo(A, n) == UNION {[1..k -> A] : k \in 0..n}

\* ------------------------------------------------------------------------
\* Atoms
\* ------------------------------------------------------------------------

\* whitespace characters matched by \s: space, tab, newline, U+00A0
SpaceAtoms == {"sp", "tab", "nl", "nbsp"}

\* runs of decimal digits, written as they appear in the text
DigitAtoms == {"1", "5", "000", "500", "1990", "2019", "40000", "50000", "3800000"}

\* punctuation: "," and "$"
PunctAtoms == {"comma", "dollar"}

\* words.  Lower-case atoms and the Cyrillic they stand for:
\*   prodam = продам, ishchu = ищу, km = км, rub = руб, tys = тыс,
\*   layk = лайк, probeg = пробег, cena = цена, podskazhite = подскажите,
\*   po = по, komplektacii = комплектации, do = до, bez = без,
\*   okrasov = окрасов, benzin = бензин, mln = млн, dizel = дизель, ne = не,
\*   nebityy = небитый, bityy = битый, svezhie = свежие, moskva = москва,
\*   bumer = бумер, pad80 = a filler word of 80 letters that contains no
\*   dictionary word; mini and minivan are the Latin words.
LowerWordAtoms ==
    {"prodam", "ishchu", "km", "rub", "tys", "layk", "probeg", "cena",
     "podskazhite", "po", "komplektacii", "do", "bez", "okrasov", "benzin",
     "bmw", "x", "pad80", "mln", "dizel", "ne", "nebityy", "bityy", "svezhie",
     "moskva", "bumer", "mini", "minivan"}

\* capitalised spellings: Prodam = Продам, Ishchu = Ищу
UpperWordAtoms == {"Prodam", "Ishchu", "BMW", "X"}

WordAtoms == LowerWordAtoms \cup UpperWordAtoms

Atoms == SpaceAtoms \cup DigitAtoms \cup PunctAtoms \cup WordAtoms

IsSpace(a) == a \in SpaceAtoms
IsDigit(a) == a \in DigitAtoms
IsLetters(a) == a \in WordAtoms
\* \w : letters and digits
IsWordChar(a) == IsDigit(a) \/ IsLetters(a)

\* str.lower() of one atom
LowerAtom(a) ==
    CASE a = "Prodam" -> "prodam"
      [] a = "Ishchu" -> "ishchu"
      [] a = "BMW" -> "bmw"
      [] a = "X" -> "x"
      [] OTHER -> a

\* number of characters of one atom
CharLen(a) ==
    CASE a \in SpaceAtoms \cup PunctAtoms -> 1
      [] a \in {"1", "5", "x", "X"} -> 1
      [] a \in {"km", "po", "do", "ne"} -> 2
      [] a \in {"000", "500", "rub", "tys", "ishchu", "Ishchu", "bmw", "BMW", "bez",
                "mln"} -> 3
      [] a \in {"1990", "2019", "layk", "cena", "mini"} -> 4
      [] a \in {"40000", "50000", "bityy", "bumer"} -> 5
      [] a \in {"prodam", "Prodam", "probeg", "benzin", "dizel", "svezhie",
                "moskva"} -> 6
      [] a \in {"3800000", "okrasov", "nebityy", "minivan"} -> 7
      [] a = "podskazhite" -> 10
      [] a = "komplektacii" -> 12
      [] a = "pad80" -> 80
      [] OTHER -> 0

\* the number a digit atom denotes
DigitVal(a) ==
    CASE a = "1" -> 1
      [] a = "5" -> 5
      [] a = "000" -> 0
      [] a = "500" -> 500
      [] a = "1990" -> 1990
      [] a = "2019" -> 2019
      [] a = "40000" -> 40000
      [] a = "50000" -> 50000
      [] a = "3800000" -> 3800000
      [] OTHER -> 0

RECURSIVE Pow10(_)
Pow10(n) == IF n = 0 THEN 1 ELSE 10 * Pow10(n - 1)

RECURSIVE StrLen(_)
\* len(s) of a str given as atoms
StrLen(s) == IF s = <<>> THEN 0 ELSE CharLen(Head(s)) + StrLen(Tail(s))

\* ------------------------------------------------------------------------
\* Values of the text argument: a str, None, or a value that is not a str
\* ------------------------------------------------------------------------
Str(s) == [kind |-> "str", atoms |-> s]
NoneText == [kind |-> "none", atoms |-> <<>>]
IntText == [kind |-> "int", atoms |-> <<>>]

\* Python truthiness of the argument: None and "" are falsy, a non-zero int is truthy
Truthy(t) == IF t.kind = "str" THEN t.atoms # <<>> ELSE t.kind = "int"

\* ------------------------------------------------------------------------
\* String helpers shared by the gate and the parser
\* ------------------------------------------------------------------------

\* s[i..j] (empty when j < i)
Slice(s, i, j) == IF j < i THEN <<>> ELSE SubSeq(s, i, j)

\* str.lower()
Lower(s) == [i \in 1..Len(s) |-> LowerAtom(s[i])]

RECURSIVE LStrip(_)
LStrip(s) == IF s # <<>> /\ IsSpace(Head(s)) THEN LStrip(Tail(s)) ELSE s

RECURSIVE RStrip(_)
RStrip(s) ==
    IF s # <<>> /\ IsSpace(s[Len(s)]) THEN RStrip(Slice(s, 1, Len(s) - 1)) ELSE s

\* str.strip()
Strip(s) == RStrip(LStrip(s))

RECURSIVE CollapseWs(_)
\* re.sub(r"\s+", " ", t): every run of whitespace becomes one space
CollapseWs(s) ==
    IF s = <<>> THEN <<>>
    ELSE IF IsSpace(Head(s))
         THEN LET rest == CollapseWs(Tail(s)) IN
              IF rest # <<>> /\ Head(rest) = "sp" THEN rest ELSE <<"sp">> \o rest
         ELSE <<Head(s)>> \o CollapseWs(Tail(s))

\* position i of s is at a \b on its left / right side
BoundaryBefore(s, i) == i = 1 \/ ~IsWordChar(s[i - 1])
BoundaryAfter(s, i) == i = Len(s) \/ ~IsWordChar(s[i + 1])

\* Dictionary fragments that occur inside an atom without being the atom:
\* benzin (бензин) starts with benz (бенз), okrasov (окрасов) with okras
\* (окрас), dizel (дизель) with diz (диз), bityy (битый) with bit (бит),
\* svezhie (свежие) with svezh (свеж); nebityy (небитый) has bit inside;
\* minivan starts with mini
FragmentsAtStart(a) ==
    CASE a = "benzin" -> {"benz"}
      [] a = "okrasov" -> {"okras"}
      [] a = "dizel" -> {"diz"}
      [] a = "bityy" -> {"bit"}
      [] a = "svezhie" -> {"svezh"}
      [] a = "minivan" -> {"mini"}
      [] OTHER -> {}
FragmentsAtEnd(a) == {}
FragmentsInside(a) == IF a = "nebityy" THEN {"bit"} ELSE {}

PrefixesOf(a) == {a} \cup FragmentsAtStart(a)
SuffixesOf(a) == {a} \cup FragmentsAtEnd(a)
SubstrOf(a) == PrefixesOf(a) \cup SuffixesOf(a) \cup FragmentsInside(a)

\* "p in s" for a word or phrase p given as atoms and fragments: the phrase
\* may begin inside the first atom it touches and end inside the last one
HasPhrase(s, p) ==
    LET n == Len(p) IN
    \E i \in 1..Len(s) :
        /\ i + n - 1 <= Len(s)
        /\ IF n = 1 THEN p[1] \in SubstrOf(s[i])
           ELSE /\ p[1] \in SuffixesOf(s[i])
                /\ p[n] \in PrefixesOf(s[i + n - 1])
                /\ \A k \in 2..(n - 1) : s[i + k - 1] = p[k]

\* Python integers are unbounded; the model checker's are 32 bits wide.  Every
\* number of at least 10^9 is represented by Huge: the code only compares
\* parsed numbers with thresholds far below it.
Huge == Pow10(9)
MulSat(a, k) == IF a >= Huge \div k THEN Huge ELSE a * k
AddSat(a, b) == IF a + b >= Huge THEN Huge ELSE a + b

RECURSIVE ConcatVal(_, _)
\* the number written by the digit atoms of ds, after the digits acc
ConcatVal(ds, acc) ==
    IF ds = <<>> THEN acc
    ELSE ConcatVal(Tail(ds),
                   AddSat(MulSat(acc, Pow10(CharLen(Head(ds)))), DigitVal(Head(ds))))

\* raw.replace(" ", ""): only U+0020 is removed
RemoveSp(s) == SelectSeq(s, LAMBDA a : a # "sp")

\* int(raw.replace(" ", "")): int() strips whitespace at both ends and
\* raises ValueError on whitespace between digits
IntOfStripped(r) ==
    IF \E i \in 1..Len(r) : IsSpace(r[i])
    THEN [ok |-> FALSE, val |-> 0]
    ELSE [ok |-> TRUE, val |-> ConcatVal(r, 0)]

IntOf(raw) == IntOfStripped(Strip(RemoveSp(raw)))

RECURSIVE SegEnd(_, _)
\* last position of the run of digits and whitespace that starts at i:
\* what \d+[\d\s]* takes, greedily, from a digit at i
SegEnd(s, i) ==
    IF i < Len(s) /\ (IsDigit(s[i + 1]) \/ IsSpace(s[i + 1])) THEN SegEnd(s, i + 1) ELSE i

NoMatch == [found |-> FALSE, raw |-> <<>>, unit |-> "none"]

\* the word "do" (до) directly precedes position i, whitespace aside
EndsWithUpTo(before) == before # <<>> /\ "do" \in SuffixesOf(before[Len(before)])

UpToBefore(s, i) == EndsWithUpTo(RStrip(Slice(s, 1, i - 1)))

\* ------------------------------------------------------------------------
\* services/ingest_quality.py
\* ------------------------------------------------------------------------

DEFAULT_MIN_SALE_SCORE == 2
DEFAULT_MIN_TEXT_LEN == 80
DEFAULT_MIN_PRICE_RUB == 150000
DEFAULT_MAX_PRICE_RUB == 20000000
DEFAULT_MIN_YEAR == 1995
DEFAULT_MAX_MILEAGE_KM == 400000

\* ищу, куплю, вопрос, подскажите, помогите, что лучше, ремонт, диагностика,
\* ошибка, проблема, запчасти, разбор
DEFAULT_BLACKLIST_WORDS ==
    << <<"ishchu">>, <<"kuplyu">>, <<"vopros">>, <<"podskazhite">>, <<"pomogite">>,
       <<"chto", "sp", "luchshe">>, <<"remont">>, <<"diagnostika">>, <<"oshibka">>,
       <<"problema">>, <<"zapchasti">>, <<"razbor">> >>

\* продам, продаю, продаётся, продается, продажа, срочно продам, торг, обмен,
\* рассмотрю обмен
POSITIVE_WORDS_RU ==
    << <<"prodam">>, <<"prodayu">>, <<"prodayotsya">>, <<"prodaetsya">>, <<"prodazha">>,
       <<"srochno", "sp", "prodam">>, <<"torg">>, <<"obmen">>,
       <<"rassmotryu", "sp", "obmen">> >>

POSITIVE_WORDS_EN == << <<"for", "sp", "sale">>, <<"sale">>, <<"selling">>, <<"sell">> >>

\* ищу, куплю, нужен, подскажите, помогите, обсуждение, вопрос, что лучше,
\* ремонт, не заводится, ошибка, диагностика
NEGATIVE_WORDS_RU ==
    << <<"ishchu">>, <<"kuplyu">>, <<"nuzhen">>, <<"podskazhite">>, <<"pomogite">>,
       <<"obsuzhdenie">>, <<"vopros">>, <<"chto", "sp", "luchshe">>, <<"remont">>,
       <<"ne", "sp", "zavoditsya">>, <<"oshibka">>, <<"diagnostika">> >>

NEGATIVE_WORDS_EN ==
    << <<"looking", "sp", "for">>, <<"help">>, <<"question">>, <<"repair">> >>

\* PRICE_PATTERN's unit (руб|₽|р\.|\$|€|тыс|к|k) at the start of an atom:
\* к also begins км and комплектации
SalePriceUnitAt(a) ==
    CASE a = "rub" -> "rub"
      [] a = "dollar" -> "dollar"
      [] a = "tys" -> "tys"
      [] a \in {"km", "komplektacii"} -> "k"
      [] OTHER -> "none"

\* PRICE_ANY_PATTERN's unit (млн|миллион|m|тыс|к|k|₽|руб|р\.|\$|€) at the
\* start of an atom
PRICE_ANY_PATTERN(a) ==
    CASE a = "mln" -> "mln"
      [] a = "tys" -> "tys"
      [] a \in {"km", "komplektacii"} -> "k"
      [] a = "rub" -> "rub"
      [] a = "dollar" -> "dollar"
      [] OTHER -> "none"

\* query_parser.price_patterns, the unit alternatives at the start of an atom:
\* (млн|миллион|m), (тыс|к), (₽|руб|р\.|\$|€)
PriceMillionUnit(a) == IF a = "mln" THEN "mln" ELSE "none"

PriceThousandUnit(a) ==
    CASE a = "tys" -> "tys"
      [] a \in {"km", "komplektacii"} -> "k"
      [] OTHER -> "none"

PriceCurrencyUnit(a) ==
    CASE a = "rub" -> "rub"
      [] a = "dollar" -> "dollar"
      [] OTHER -> "none"

\* MILEAGE_PATTERN's unit (км|тыс) at the start of an atom; the parser's
\* mileage pattern has the same alternatives
MILEAGE_PATTERN(a) ==
    CASE a = "km" -> "km"
      [] a = "tys" -> "tys"
      [] OTHER -> "none"

\* the unit alternative of a pattern that matches at the start of atom a,
\* or "none"
UnitAt(pattern, a) ==
    CASE pattern = "PRICE_ANY_PATTERN" -> PRICE_ANY_PATTERN(a)
      [] pattern = "MILEAGE_PATTERN" -> MILEAGE_PATTERN(a)
      [] pattern = "price_patterns[0]" -> PriceMillionUnit(a)
      [] pattern = "price_patterns[1]" -> PriceThousandUnit(a)
      [] pattern = "price_patterns[2]" -> PriceCurrencyUnit(a)
      [] OTHER -> "none"

\* re.search of  (до|<=|<)?\s*(\d+[\d\s]*)\s*(unit alternatives)  in s, and
\* with needUpTo of  до\s*(\d+[\d\s]*)\s*(unit alternatives).
\* UnitAt(pattern, a) is the alternative that matches at the start of atom a.
\* The leftmost match takes the first digit that begins a run of digits and
\* whitespace directly followed by a unit: raw is that run, unit the alternative.
NumberUnitStarts(s, pattern, needUpTo) ==
    {i \in 1..Len(s) :
        /\ IsDigit(s[i])
        /\ SegEnd(s, i) < Len(s)
        /\ UnitAt(pattern, s[SegEnd(s, i) + 1]) # "none"
        /\ needUpTo => UpToBefore(s, i)}

\* the match that starts at digit i and ends with the unit after position j
MatchFromTo(s, pattern, i, j) ==
    [found |-> TRUE, raw |-> Slice(s, i, j), unit |-> UnitAt(pattern, s[j + 1])]

MatchAt(s, pattern, i) == MatchFromTo(s, pattern, i, SegEnd(s, i))

FirstMatch(s, pattern, Starts) ==
    IF Starts = {} THEN NoMatch
    ELSE MatchAt(s, pattern, CHOOSE k \in Starts : \A m \in Starts : k <= m)

NumberUnitSearch(s, pattern, needUpTo) ==
    FirstMatch(s, pattern, NumberUnitStarts(s, pattern, needUpTo))

\* NOISE_PATTERNS: of the words they remove the atoms have лайк (\bлайк\b);
\* no atom is a URL, a t.me link or a form of подписаться / поделиться
NoiseSub(s) ==
    [i \in 1..Len(s) |->
        IF s[i] = "layk" /\ BoundaryBefore(s, i) /\ BoundaryAfter(s, i)
        THEN "sp" ELSE s[i]]

normalize_text_for_rules(s) ==
    Strip(CollapseWs(NoiseSub(Strip(CollapseWs(Lower(s))))))

\* the words of a dictionary present in s, as the set of their indexes
WordsPresent(s, dict) == {k \in 1..Len(dict) : HasPhrase(s, dict[k])}

\* a maximal run of digit atoms: all of them, starting at i
RECURSIVE DigitsEnd(_, _)
DigitsEnd(s, i) == IF i < Len(s) /\ IsDigit(s[i + 1]) THEN DigitsEnd(s, i + 1) ELSE i

\* the digits s[i..j] as a number between two \b
NumberFromTo(s, i, j) ==
    [bounded |-> IsDigit(s[i]) /\ BoundaryBefore(s, i) /\ BoundaryAfter(s, j),
     last |-> j,
     digits |-> StrLen(Slice(s, i, j)),
     val |-> IF IsDigit(s[i]) THEN ConcatVal(Slice(s, i, j), 0) ELSE 0]

\* the number that starts at i
NumberAt(s, i) == NumberFromTo(s, i, DigitsEnd(s, i))

\* \b\d{3,}\b\s?(unit) with the number n of s
PriceAfter(s, n) ==
    /\ n.bounded
    /\ n.digits >= 3
    /\ \/ n.last + 1 <= Len(s) /\ SalePriceUnitAt(s[n.last + 1]) # "none"
       \/ /\ n.last + 2 <= Len(s)
          /\ IsSpace(s[n.last + 1])
          /\ SalePriceUnitAt(s[n.last + 2]) # "none"

\* PRICE_PATTERN.search(text): \b\d{3,}\b\s?(unit)
PRICE_PATTERN(s) == \E i \in 1..Len(s) : PriceAfter(s, NumberAt(s, i))

\* the score is_sale_intent compares with min_score, of the lower-cased text
ScoreOf(t) ==
    2 * Cardinality(WordsPresent(t, POSITIVE_WORDS_RU \o POSITIVE_WORDS_EN))
    + (IF PRICE_PATTERN(t) THEN 1 ELSE 0)
    - 2 * Cardinality(WordsPresent(t, NEGATIVE_WORDS_RU \o NEGATIVE_WORDS_EN))

SaleScore(s) == ScoreOf(Lower(s))

is_sale_intent(s, min_score) ==
    IF s = <<>> THEN FALSE ELSE SaleScore(s) >= min_score

None == [some |-> FALSE, val |-> 0]
Some(v) == [some |-> TRUE, val |-> v]

\* parse_price_rub after int(): the unit's multiplier
PriceOfInt(n, unit) ==
    IF ~n.ok THEN None
    ELSE IF unit \in {"mln", "million", "m"} THEN Some(MulSat(n.val, 1000000))
    ELSE IF unit \in {"tys", "k", "k_latin"} THEN Some(MulSat(n.val, 1000))
    ELSE IF unit \in {"dollar", "euro"} THEN None
    ELSE Some(n.val)

\* parse_price_rub after the search
PriceOfMatch(m) == IF ~m.found THEN None ELSE PriceOfInt(IntOf(m.raw), m.unit)

parse_price_rub(s) ==
    IF s = <<>> THEN None
    ELSE PriceOfMatch(NumberUnitSearch(normalize_text_for_rules(s),
                                       "PRICE_ANY_PATTERN", FALSE))

\* the number a 19xx / 20xx match denotes
YearOf(n) == n.bounded /\ n.digits = 4 /\ n.val >= 1900 /\ n.val <= 2099

\* YEAR_PATTERN.search(t): \b(19\d{2}|20\d{2})\b, the first such number
YEAR_PATTERN(t) ==
    IF \E i \in 1..Len(t) : YearOf(NumberAt(t, i))
    THEN Some(NumberAt(t, CHOOSE i \in 1..Len(t) :
                             /\ YearOf(NumberAt(t, i))
                             /\ \A k \in 1..(i - 1) : ~YearOf(NumberAt(t, k))).val)
    ELSE None

parse_year(s) ==
    IF s = <<>> THEN None ELSE YEAR_PATTERN(normalize_text_for_rules(s))

\* parse_mileage_km after int(): тыс multiplies by 1000
MileageOfInt(n, unit) ==
    IF ~n.ok THEN None
    ELSE IF unit = "tys" THEN Some(MulSat(n.val, 1000))
    ELSE Some(n.val)

\* parse_mileage_km after the search
MileageOfMatch(m) == IF ~m.found THEN None ELSE MileageOfInt(IntOf(m.raw), m.unit)

parse_mileage_km(s) ==
    IF s = <<>> THEN None
    ELSE MileageOfMatch(NumberUnitSearch(normalize_text_for_rules(s),
                                         "MILEAGE_PATTERN", FALSE))

\* the dict extract_quality_signals builds from the three parses
Signals(price, year, mileage) ==
    [price_rub |-> price,
     year |-> year,
     mileage_km |-> mileage,
     has_price |-> price.some,
     has_year |-> year.some,
     has_mileage |-> mileage.some]

extract_quality_signals(s) ==
    Signals(parse_price_rub(s), parse_year(s), parse_mileage_km(s))

\* the blacklist argument: None, or a list of words (a list may hold a value
\* that is not a str after its words)
NoBlacklist == [given |-> FALSE, words |-> <<>>, nonstr |-> FALSE]
WordList(ws) == [given |-> TRUE, words |-> ws, nonstr |-> FALSE]
BadList(ws) == [given |-> TRUE, words |-> ws, nonstr |-> TRUE]

\* blacklist = blacklist or DEFAULT_BLACKLIST_WORDS
BlacklistOrDefault(bl) ==
    IF ~bl.given \/ (bl.words = <<>> /\ ~bl.nonstr)
    THEN [given |-> TRUE, words |-> DEFAULT_BLACKLIST_WORDS, nonstr |-> FALSE]
    ELSE bl

\* the loop over the blacklist on the normalised text t
BlacklistLoop(t, bl) ==
    IF \E k \in 1..Len(bl.words) :
           bl.words[k] # <<>> /\ HasPhrase(t, Lower(bl.words[k]))
    THEN "True"
    ELSE IF bl.nonstr THEN "raise"
    ELSE "False"

\* "True", "False", or "raise" when w.lower() meets a value that is not a str
has_blacklist_words(s, bl) ==
    IF s = <<>> THEN "True"
    ELSE BlacklistLoop(normalize_text_for_rules(s), BlacklistOrDefault(bl))

\* the price, year and mileage rules of passes_min_max_rules
MinMaxOf(signals) ==
    IF signals.price_rub.some /\ signals.price_rub.val < DEFAULT_MIN_PRICE_RUB
    THEN [ok |-> FALSE, reason |-> "price_too_low"]
    ELSE IF signals.price_rub.some /\ signals.price_rub.val > DEFAULT_MAX_PRICE_RUB
    THEN [ok |-> FALSE, reason |-> "price_too_high"]
    ELSE IF signals.year.some /\ signals.year.val < DEFAULT_MIN_YEAR
    THEN [ok |-> FALSE, reason |-> "year_too_old"]
    ELSE IF signals.mileage_km.some /\ signals.mileage_km.val > DEFAULT_MAX_MILEAGE_KM
    THEN [ok |-> FALSE, reason |-> "mileage_too_high"]
    ELSE [ok |-> TRUE, reason |-> "ok"]

\* the length rule reports its reason under another name
passes_min_max_rules_renamed(s) ==
    IF s = <<>> \/ StrLen(Strip(s)) < DEFAULT_MIN_TEXT_LEN
    THEN [ok |-> FALSE, reason |-> "too_short"]
    ELSE MinMaxOf(extract_quality_signals(s))

\* the length rule left out
passes_min_max_rules_nolen(s) == MinMaxOf(extract_quality_signals(s))

passes_min_max_rules(s) ==
    IF s = <<>> \/ StrLen(Strip(s)) < DEFAULT_MIN_TEXT_LEN
    THEN [ok |-> FALSE, reason |-> "text_too_short"]
    ELSE MinMaxOf(extract_quality_signals(s))

AnySignal(signals) == signals.has_price \/ signals.has_year \/ signals.has_mileage

has_any_required_signals(s) == AnySignal(extract_quality_signals(s))

\* What a call of should_skip_doc produces: raised tells whether an exception
\* left the function; otherwise skip and meta are the returned pair.  keys is
\* the set of keys of meta; reason, sale_intent and text_len are meta's values
\* for the keys it has.
Outcome(raised, skip, reason, keys, sale, len) ==
    [raised |-> raised, skip |-> skip, reason |-> reason, keys |-> keys,
     sale_intent |-> sale, text_len |-> len]

\* a text without sale intent kept although it has no price, year or mileage
GateDecide_keepweak(len, bw, mm, sale, signals) ==
    IF bw = "raise" THEN Outcome(TRUE, FALSE, "", {"source", "text_len"}, FALSE, len)
    ELSE IF bw = "True"
    THEN Outcome(FALSE, TRUE, "blacklist_word",
                 {"source", "text_len", "reason"}, FALSE, len)
    ELSE IF ~mm.ok
    THEN Outcome(FALSE, TRUE, mm.reason, {"source", "text_len", "reason"}, FALSE, len)
    ELSE IF ~sale
    THEN Outcome(FALSE, FALSE, "weak_sale_but_has_signals",
                 {"source", "text_len", "sale_intent", "reason"}, sale, len)
    ELSE Outcome(FALSE, FALSE, "ok",
                 {"source", "text_len", "sale_intent", "reason"}, sale, len)

\* rules 1-4 of should_skip_doc, given what each rule's function returned for
\* the normalised text: len(norm), has_blacklist_words, passes_min_max_rules,
\* is_sale_intent, has_any_required_signals
GateDecide(len, bw, mm, sale, signals) ==
    IF bw = "raise" THEN Outcome(TRUE, FALSE, "", {"source", "text_len"}, FALSE, len)
    ELSE IF bw = "True"
    THEN Outcome(FALSE, TRUE, "blacklist_word",
                 {"source", "text_len", "reason"}, FALSE, len)
    ELSE IF ~mm.ok
    THEN Outcome(FALSE, TRUE, mm.reason, {"source", "text_len", "reason"}, FALSE, len)
    ELSE IF ~sale /\ ~signals
    THEN Outcome(FALSE, TRUE, "not_sale_and_no_signals",
                 {"source", "text_len", "sale_intent", "reason"}, sale, len)
    ELSE IF ~sale
    THEN Outcome(FALSE, FALSE, "weak_sale_but_has_signals",
                 {"source", "text_len", "sale_intent", "reason"}, sale, len)
    ELSE Outcome(FALSE, FALSE, "ok",
                 {"source", "text_len", "sale_intent", "reason"}, sale, len)

\* the rules applied to the normalised text
GateRules(norm, bl, min_sale_score) ==
    GateDecide(StrLen(norm),
               has_blacklist_words(norm, bl),
               passes_min_max_rules(norm),
               is_sale_intent(norm, min_sale_score),
               has_any_required_signals(norm))

\* the body of the try block: raised marks an exception reaching the handler
GateBody(t, bl, min_sale_score) ==
    IF ~Truthy(t) THEN Outcome(FALSE, TRUE, "empty_text", {"reason"}, FALSE, 0)
    ELSE IF t.kind # "str" THEN Outcome(TRUE, FALSE, "", {}, FALSE, 0)
    ELSE GateRules(normalize_text_for_rules(t.atoms), bl, min_sale_score)

\* except Exception: the decision made of an exception
Caught(b) ==
    IF b.raised
    THEN Outcome(FALSE, TRUE, "exception", b.keys \cup {"reason", "error"},
                 b.sale_intent, b.text_len)
    ELSE b

\* the except clause missing: the exception leaves the function
should_skip_doc_uncaught(t, bl, min_sale_score) == GateBody(t, bl, min_sale_score)

should_skip_doc(t, bl, min_sale_score) == Caught(GateBody(t, bl, min_sale_score))

\* ------------------------------------------------------------------------
\* services/query_parser.py
\* ------------------------------------------------------------------------

\* an Optional[str] that is None
NoneStr == [some |-> FALSE, val |-> ""]

\* BRANDS_CONFIG, the content of config/brands.yaml in catalog order: per
\* brand key its exact tokens (en + ru) and its aliases, each a word
BRANDS_CONFIG ==
    << [brand |-> "bmw", exact |-> <<"bmw">>, aliases |-> <<"bumer">>] >>

\* re.search(rf"\b{w}\b", text) for a word w
WordBounded(s, w) ==
    \E i \in 1..Len(s) : s[i] = w /\ BoundaryBefore(s, i) /\ BoundaryAfter(s, i)

\* the confidence, in tenths, at which one catalog entry matches: 10 exact,
\* 8 alias, 6 substring, 0 no match
BrandTier(s, cfg) ==
    IF \E k \in 1..Len(cfg.exact) : WordBounded(s, cfg.exact[k]) THEN 10
    ELSE IF \E k \in 1..Len(cfg.aliases) : WordBounded(s, cfg.aliases[k]) THEN 8
    ELSE IF \E k \in 1..Len(cfg.exact) : HasPhrase(s, <<cfg.exact[k]>>) THEN 6
    ELSE 0

\* the return of the first entry of the catalog, of those of Ks, that matches
FirstBrand(s, cat, Ks) ==
    IF Ks = {} THEN [brand |-> NoneStr, confidence |-> 0]
    ELSE [brand |-> Some(cat[CHOOSE k \in Ks : \A m \in Ks : k <= m].brand),
          confidence |-> BrandTier(s, cat[CHOOSE k \in Ks : \A m \in Ks : k <= m])]

\* for brand, cfg in BRANDS_CONFIG.items(), BRANDS_CONFIG being cat
ExtractBrandFrom(s, cat) ==
    FirstBrand(s, cat, {k \in 1..Len(cat) : BrandTier(s, cat[k]) > 0})

_extract_brand(s) == ExtractBrandFrom(s, BRANDS_CONFIG)

\* detect_brand's test of one catalog entry, in tenths: 10 when an en or ru
\* token is a substring of the text, 7 when an alias is, 0 otherwise
DetectTier(t, cfg) ==
    IF \E k \in 1..Len(cfg.exact) : HasPhrase(t, <<cfg.exact[k]>>) THEN 10
    ELSE IF \E k \in 1..Len(cfg.aliases) : HasPhrase(t, <<cfg.aliases[k]>>) THEN 7
    ELSE 0

\* the return of the first entry of the catalog, of those of Ks
DetectFirst(t, cat, Ks) ==
    IF Ks = {} THEN [brand |-> NoneStr, confidence |-> 0]
    ELSE [brand |-> Some(cat[CHOOSE k \in Ks : \A m \in Ks : k <= m].brand),
          confidence |-> DetectTier(t, cat[CHOOSE k \in Ks : \A m \in Ks : k <= m])]

\* the loop of detect_brand over the lower-cased text t
DetectLoop(t, cat) ==
    DetectFirst(t, cat, {k \in 1..Len(cat) : DetectTier(t, cat[k]) > 0})

\* detect_brand(text) with the catalog _load_brands() returns
detect_brand(s, cat) ==
    IF s = <<>> THEN [brand |-> NoneStr, confidence |-> 0]
    ELSE DetectLoop(Lower(s), cat)

\* a field the parser computed, or the exception computing it raised
Field(v) == [raised |-> FALSE, val |-> v]
FieldError == [raised |-> TRUE, val |-> None]

\* value = int(m.group(2).replace(" ", "")), times the unit's multiplier
PriceValue(n, unit) ==
    IF ~n.ok THEN FieldError
    ELSE IF unit = "mln" THEN Field(Some(MulSat(n.val, 1000000)))
    ELSE IF unit \in {"tys", "k"} THEN Field(Some(MulSat(n.val, 1000)))
    ELSE Field(Some(n.val))

\* the body of the loop for the pattern that matched first
PriceMaxOf(m) == IF ~m.found THEN Field(None) ELSE PriceValue(IntOf(m.raw), m.unit)

\* for p in price_patterns: the first pattern that has a match
FirstPattern(m0, m1, m2) == IF m0.found THEN m0 ELSE IF m1.found THEN m1 ELSE m2

ParsePriceMax(s) ==
    PriceMaxOf(FirstPattern(NumberUnitSearch(s, "price_patterns[0]", FALSE),
                              NumberUnitSearch(s, "price_patterns[1]", FALSE),
                              NumberUnitSearch(s, "price_patterns[2]", FALSE)))

\* mileage = int(m.group(1).replace(" ", "")), times 1000 for тыс
MileageValue(n, unit) ==
    IF ~n.ok THEN FieldError
    ELSE IF unit = "tys" THEN Field(Some(MulSat(n.val, 1000)))
    ELSE Field(Some(n.val))

MileageMaxOf(m) ==
    IF ~m.found THEN Field(None) ELSE MileageValue(IntOf(m.raw), m.unit)

\* re.search(r"до\s*(\d+[\d\s]*)\s*(км|тыс)", text)
ParseMileageMax(s) == MileageMaxOf(NumberUnitSearch(s, "MILEAGE_PATTERN", TRUE))

\* the fuel test by whole words
ParseFuel_wholeword(s) ==
    IF WordBounded(s, "benz") THEN Some("petrol")
    ELSE IF WordBounded(s, "diz") THEN Some("diesel")
    ELSE NoneStr

\* бенз, диз, гибрид, электро / электр as substrings
ParseFuel(s) ==
    IF HasPhrase(s, <<"benz">>) THEN Some("petrol")
    ELSE IF HasPhrase(s, <<"diz">>) THEN Some("diesel")
    ELSE IF HasPhrase(s, <<"gibrid">>) THEN Some("hybrid")
    ELSE IF HasPhrase(s, <<"elektro">>) \/ HasPhrase(s, <<"elektr">>)
    THEN Some("electric")
    ELSE NoneStr

\* без окрас, не бит, родная краска; крашен, бит
ParsePaint(s) ==
    IF \/ HasPhrase(s, <<"bez", "sp", "okras">>)
       \/ HasPhrase(s, <<"ne", "sp", "bit">>)
       \/ HasPhrase(s, <<"rodnaya", "sp", "kraska">>)
    THEN Some("original")
    ELSE IF HasPhrase(s, <<"krashen">>) \/ HasPhrase(s, <<"bit">>)
    THEN Some("repainted")
    ELSE NoneStr

\* москва, спб, питер, екатеринбург, казань, новосибирск, алматы, астана
CityNames ==
    {"moskva", "spb", "piter", "ekaterinburg", "kazan", "novosibirsk", "almaty",
     "astana"}

CityAt(s, i) == s[i] \in CityNames /\ BoundaryBefore(s, i) /\ BoundaryAfter(s, i)

\* the first \b(city)\b of the text
ParseCity(s) ==
    IF \E i \in 1..Len(s) : CityAt(s, i)
    THEN Some(s[CHOOSE i \in 1..Len(s) :
                    CityAt(s, i) /\ \A k \in 1..(i - 1) : ~CityAt(s, k)])
    ELSE NoneStr

\* any(w in text for w in ["свеж", "нов", "последн"]): keywords starts with "recent"
RecentKeyword(s) ==
    IF \/ HasPhrase(s, <<"svezh">>)
       \/ HasPhrase(s, <<"nov">>)
       \/ HasPhrase(s, <<"posledn">>)
    THEN << <<"recent">> >>
    ELSE <<>>

RECURSIVE Tokens(_)
\* re.findall(r"[a-zа-я0-9]+", text): the maximal runs of letters and digits,
\* each the sequence of its atoms
Tokens(s) ==
    IF s = <<>> THEN <<>>
    ELSE IF ~IsWordChar(Head(s)) THEN Tokens(Tail(s))
    ELSE IF Len(s) > 1 /\ IsWordChar(s[2])
         THEN << <<Head(s)>> \o Head(Tokens(Tail(s))) >> \o Tail(Tokens(Tail(s)))
         ELSE << <<Head(s)>> >> \o Tokens(Tail(s))

\* до, без, и, или, не, бит, крашен, км, тыс, руб, р, ₽
STOP_TOKENS ==
    { <<"do">>, <<"bez">>, <<"i">>, <<"ili">>, <<"ne">>, <<"bit">>, <<"krashen">>,
      <<"km">>, <<"tys">>, <<"rub">>, <<"r">>, <<"rouble_sign">> }

\* t.startswith("не"): ne (не) and nebityy (небитый) begin with не
StartsWithNe(t) == Head(t) \in {"ne", "nebityy"}

\* an atom without its first character: е, ебитый
DropFirstChar(a) ==
    CASE a = "ne" -> "e"
      [] a = "nebityy" -> "ebityy"
      [] OTHER -> a

\* t[1:]
TailOfStr(t) == <<DropFirstChar(Head(t))>> \o Tail(t)

RECURSIVE TokenLoop(_, _, _)
\* the loop over tokens, from the keywords and exclusions collected so far
TokenLoop(ts, keywords, exclusions) ==
    IF ts = <<>> THEN [keywords |-> keywords, exclusions |-> exclusions]
    ELSE IF StartsWithNe(Head(ts)) /\ StrLen(Head(ts)) > 2
    THEN TokenLoop(Tail(ts), keywords, Append(exclusions, TailOfStr(Head(ts))))
    ELSE IF /\ Head(ts) \notin STOP_TOKENS
            /\ \A k \in 1..Len(keywords) : keywords[k] # Head(ts)
    THEN TokenLoop(Tail(ts), Append(keywords, Head(ts)), exclusions)
    ELSE TokenLoop(Tail(ts), keywords, exclusions)

\* StructuredQuery(raw_query=raw): every other field at its default
StructuredQuery(raw) ==
    [raw_query |-> raw, brand |-> NoneStr, brand_confidence |-> 0, model |-> NoneStr,
     price_max |-> None, mileage_max |-> None, fuel |-> NoneStr,
     paint_condition |-> NoneStr, city |-> NoneStr, keywords |-> <<>>,
     exclusions |-> <<>>]

\* What a call of the parser produces: raised tells whether an exception left
\* the function, sq is the StructuredQuery returned otherwise
Returned(sq) == [raised |-> FALSE, sq |-> sq]
Raised == [raised |-> TRUE, sq |-> StructuredQuery(<<>>)]

\* result after every block of _parse_with_fallback ran; int() raising in the
\* price or the mileage block ends the function with the exception
FallbackResult(raw, brand, price, mileage, fuel, paint, city, words) ==
    IF price.raised \/ mileage.raised THEN Raised
    ELSE Returned([raw_query |-> raw,
                   brand |-> brand.brand,
                   brand_confidence |-> brand.confidence,
                   model |-> NoneStr,
                   price_max |-> price.val,
                   mileage_max |-> mileage.val,
                   fuel |-> fuel,
                   paint_condition |-> paint,
                   city |-> city,
                   keywords |-> words.keywords,
                   exclusions |-> words.exclusions])

\* the blocks of _parse_with_fallback on text = raw_text.lower()
FallbackBlocks(raw, s) ==
    FallbackResult(raw, _extract_brand(s), ParsePriceMax(s), ParseMileageMax(s),
                   ParseFuel(s), ParsePaint(s), ParseCity(s),
                   TokenLoop(Tokens(s), RecentKeyword(s), <<>>))

_parse_with_fallback(raw) == FallbackBlocks(raw, Lower(raw))

\* raise RuntimeError("LLM not implemented yet")
_parse_with_llm(raw) == Raised

\* try: the LLM result; except Exception: the fallback's, whose exception
\* is raised from inside the handler and leaves parse_query
ParseOrFallback(llm, fallback, raw) ==
    IF ~llm.raised THEN Returned([llm.sq EXCEPT !.raw_query = raw]) ELSE fallback

\* parse_query after raw_text = (raw_text or "").strip()
ParseStripped(raw) ==
    IF raw = <<>> THEN Returned(StructuredQuery(raw))
    ELSE ParseOrFallback(_parse_with_llm(raw), _parse_with_fallback(raw), raw)

parse_query(t) == ParseStripped(Strip(t.atoms))

\* ------------------------------------------------------------------------
\* services/search_service.py
\*
\* Scores are kept exact.  A similarity, a price, mileage or recency score is
\* a whole number of thousandths; a boost is a whole number of twentieths
\* (1.5 = 30/20, 1.15 = 23/20, 1.1 = 22/20, 1.0 = 20/20, 0.9 = 18/20,
\* 0.85 = 17/20, 0.8 = 16/20); a result's score, rounded to 4 places, is a
\* whole number of ten-thousandths.  Times are whole days.
\* ------------------------------------------------------------------------

MAX_RESULTS_PER_SOURCE == 3
RECENCY_MAX_DAYS == 180
DEFAULT_LIMIT == 20

\* the keys of SOURCE_BOOSTS with the boost 1.5 and those with the boost 0.8
ForumSources == {"benzclub.ru", "bmwclub.ru", "forum"}
MarketplaceSources == {"auto.ru", "drom.ru", "avito.ru", "marketplace"}

\* a table with the neutral boost for every source
SOURCE_BOOSTS_neutral(source) == 20

\* SOURCE_BOOSTS.get(source, 1.0), in twentieths
SOURCE_BOOSTS(source) ==
    CASE source \in ForumSources -> 30
      [] source = "telegram" -> 20
      [] source \in MarketplaceSources -> 16
      [] OTHER -> 20

\* set(BRANDS_WHITELIST.keys())
WHITELIST_SET == {BRANDS_CONFIG[k].brand : k \in 1..Len(BRANDS_CONFIG)}

\* urlparse(source_url).netloc.lower(); "" for a url without //host
Netloc(url) ==
    CASE url \in {"https://bmwclub.ru/1", "https://bmwclub.ru/2"} -> "bmwclub.ru"
      [] url = "https://Avito.ru/3" -> "avito.ru"
      [] url = "https://drom.ru/4" -> "drom.ru"
      [] OTHER -> ""

\* an Optional[int] / Optional[str] field is truthy
PresentInt(field) == field.some /\ field.val # 0
PresentStr(field) == field.some /\ field.val # ""

\* max(0.0, 1.0 - abs(ceiling - value) / ceiling), in thousandths
MatchScore(ceiling, value) ==
    IF value >= 2 * ceiling THEN 0
    ELSE IF value >= ceiling THEN ((2 * ceiling - value) * 1000) \div ceiling
    ELSE (value * 1000) \div ceiling

\* price_score and its reason
PriceMatch(sq, payload) ==
    IF PresentInt(sq.price_max) /\ PresentInt(payload.price)
    THEN [score |-> MatchScore(sq.price_max.val, payload.price.val),
          reasons |-> <<"price_match">>]
    ELSE [score |-> 0, reasons |-> <<>>]

\* mileage_score and its reason
MileageMatch(sq, payload) ==
    IF PresentInt(sq.mileage_max) /\ PresentInt(payload.mileage)
    THEN [score |-> MatchScore(sq.mileage_max.val, payload.mileage.val),
          reasons |-> <<"mileage_match">>]
    ELSE [score |-> 0, reasons |-> <<>>]

\* max(0.0, 1.0 - age / RECENCY_MAX_DAYS), in thousandths, for an age in days
Decay(age) ==
    IF age >= RECENCY_MAX_DAYS THEN 0
    ELSE ((RECENCY_MAX_DAYS - age) * 1000) \div RECENCY_MAX_DAYS

\* recency_score and its reason.  created.kind tells what the payload has:
\* "ts" a numeric created_at_ts, "iso" only a created_at that parses,
\* "aware" only a created_at that parses to a datetime with a UTC offset
\* (subtracting it from datetime.utcnow() raises TypeError), "invalid" only a
\* created_at that does not parse, "missing" neither;
\* created.day is the day of the timestamp, now the day of the call.
Recency(created, now) ==
    CASE created.kind = "ts" ->
           [score |-> Decay(IF now >= created.day THEN now - created.day ELSE 0),
            reasons |-> <<"recency_boost">>]
      [] created.kind = "iso" ->
           [score |-> Decay(now - created.day), reasons |-> <<"recency_fallback">>]
      [] created.kind \in {"aware", "invalid"} ->
           [score |-> 0, reasons |-> <<"recency_invalid">>]
      [] OTHER -> [score |-> 0, reasons |-> <<"recency_missing">>]

\* payload.get("source") or ""
SourceOrEmpty(payload) == IF PresentStr(payload.source) THEN payload.source.val ELSE ""

\* source_boost and its reason
SourceBoost(source) ==
    [boost |-> SOURCE_BOOSTS(source),
     reasons |-> IF SOURCE_BOOSTS(source) # 20 THEN <<"source_boost">> ELSE <<>>]

\* brand_boost (1.15 or 0.9) and its reason
BrandBoost(payload) ==
    IF PresentStr(payload.brand) /\ LowerAtom(payload.brand.val) \in WHITELIST_SET
    THEN [boost |-> 23, reasons |-> <<"brand_whitelisted">>]
    ELSE [boost |-> 18, reasons |-> <<"brand_outside_whitelist">>]

\* sale_boost (1.1 or 0.85) and its reason: str(sale_intent) == "1"
SaleBoost(payload) ==
    IF payload.sale_intent = "1"
    THEN [boost |-> 22, reasons |-> <<"sale_intent=true">>]
    ELSE [boost |-> 17, reasons |-> <<"sale_intent=false">>]

\* round(n / d, 0) for n >= 0 and d > 0, a tie going to the even neighbour
RoundDiv(n, d) ==
    IF 2 * (n % d) > d \/ (2 * (n % d) = d /\ (n \div d) % 2 = 1)
    THEN (n \div d) + 1
    ELSE n \div d

\* final_score of _score_hit, rounded to 4 places as search stores it:
\* (sum / 1000) * (source / 20) * (brand / 20) * (sale / 20)
\*   * 1 / (1 + source_rank * 0.5) * 1 / (1 + domain_rank * 0.4)
\* = sum * source * brand * sale * 10
\*   / (8000000 * (2 + source_rank) * (5 + 2 * domain_rank)),
\* in ten-thousandths
FinalScore(sum, source, brand, sale, source_rank, domain_rank) ==
    RoundDiv(sum * source * brand * sale * 10,
             800 * (2 + source_rank) * (5 + 2 * domain_rank))

\* the reasons diversity_penalty and domain_penalty
PenaltyReasons(source_rank, domain_rank) ==
    (IF source_rank > 0 THEN <<"diversity_penalty">> ELSE <<>>)
    \o (IF domain_rank > 0 THEN <<"domain_penalty">> ELSE <<>>)

\* _score_hit from the parts it computes, in the order it computes them
ScoreOfParts(vector_score, source, brand, sale, price, mileage, recency, source_rank, domain_rank) ==
    [score |-> FinalScore(vector_score + price.score + mileage.score + recency.score,
                          source.boost, brand.boost, sale.boost,
                          source_rank, domain_rank),
     reasons |-> <<"semantic">> \o source.reasons \o brand.reasons \o sale.reasons
                 \o price.reasons \o mileage.reasons \o recency.reasons
                 \o PenaltyReasons(source_rank, domain_rank)]

_score_hit(vector_score, payload, sq, source_rank, domain_rank, now) ==
    ScoreOfParts(vector_score, SourceBoost(SourceOrEmpty(payload)), BrandBoost(payload),
                 SaleBoost(payload), PriceMatch(sq, payload), MileageMatch(sq, payload),
                 Recency(payload.created, now), source_rank, domain_rank)

\* _build_query_text: the parts joined, or the AttributeError of reading an
\* attribute the object does not have.  has_region tells whether the object
\* passed as structured has an attribute region; class StructuredQuery
\* declares none.
_build_query_text(structured) ==
    IF ~structured.has_region THEN [raised |-> TRUE, parts |-> <<>>]
    ELSE [raised |-> FALSE,
          parts |-> (IF PresentStr(structured.sq.brand)
                     THEN << <<structured.sq.brand.val>> >> ELSE <<>>)
                    \o (IF PresentStr(structured.sq.fuel)
                        THEN << <<structured.sq.fuel.val>> >> ELSE <<>>)
                    \o (IF PresentStr(structured.sq.paint_condition)
                        THEN << <<structured.sq.paint_condition.val>> >> ELSE <<>>)
                    \o structured.sq.keywords]

\* counter.setdefault(key, 0); counter[key]
Count(counter, key) == IF key \in DOMAIN counter THEN counter[key] ELSE 0

\* the state of the loop before the first hit
LoopStart ==
    [results |-> <<>>, seen_urls |-> {}, source_counter |-> <<>>,
     domain_counter |-> <<>>, stopped |-> FALSE]

\* payload.get("source") or "unknown"
SourceName(payload) == IF PresentStr(payload.source) THEN payload.source.val ELSE "unknown"

\* domain = parsed.netloc.lower() if parsed.netloc else "unknown"
DomainOf(url) == IF Netloc(url) # "" THEN Netloc(url) ELSE "unknown"

\* the dict appended to results
ResultOf(hit, scored, source_name) ==
    [brand |-> hit.payload.brand,
     mileage |-> hit.payload.mileage,
     price |-> hit.payload.price,
     score |-> scored.score,
     why_match |-> scored.reasons,
     source_url |-> hit.payload.url.val,
     source_name |-> source_name]

\* the cap lets a fourth result of the source through
SourceCapped_late(count) == count > MAX_RESULTS_PER_SOURCE

\* source_counter[source_name] >= MAX_RESULTS_PER_SOURCE
SourceCapped(count) == count >= MAX_RESULTS_PER_SOURCE

\* the end of the loop body: append, count, and break at limit
Accept(acc, result, domain, limit) ==
    [results |-> Append(acc.results, result),
     seen_urls |-> acc.seen_urls \cup {result.source_url},
     source_counter |->
         (result.source_name :> (Count(acc.source_counter, result.source_name) + 1))
         @@ acc.source_counter,
     domain_counter |->
         (domain :> (Count(acc.domain_counter, domain) + 1)) @@ acc.domain_counter,
     stopped |-> Len(acc.results) + 1 >= limit]

\* the loop body for a hit that passed the url test
LoopBody(acc, hit, source_name, domain, sq, limit, now) ==
    IF SourceCapped(Count(acc.source_counter, source_name)) THEN acc
    ELSE Accept(acc,
                ResultOf(hit,
                         _score_hit(hit.score, hit.payload, sq,
                                    Count(acc.source_counter, source_name),
                                    Count(acc.domain_counter, domain), now),
                         source_name),
                domain, limit)

\* one iteration of  for hit in hits
LoopStep(acc, hit, sq, limit, now) ==
    IF acc.stopped THEN acc
    ELSE IF ~PresentStr(hit.payload.url) \/ hit.payload.url.val \in acc.seen_urls THEN acc
    ELSE LoopBody(acc, hit, SourceName(hit.payload), DomainOf(hit.payload.url.val),
                  sq, limit, now)

RECURSIVE Loop(_, _, _, _, _)
\* for hit in hits, from the loop state acc
Loop(hits, acc, sq, limit, now) ==
    IF hits = <<>> THEN acc
    ELSE Loop(Tail(hits), LoopStep(acc, Head(hits), sq, limit, now), sq, limit, now)

\* a result put before the results of equal score already in the list
InsertDesc_beforeEqual(sorted, r) ==
    IF \E k \in 1..Len(sorted) : sorted[k].score <= r.score
    THEN SubSeq(sorted, 1, (CHOOSE k \in 1..Len(sorted) :
                               /\ sorted[k].score <= r.score
                               /\ \A m \in 1..(k - 1) : sorted[m].score > r.score) - 1)
         \o <<r>>
         \o SubSeq(sorted, CHOOSE k \in 1..Len(sorted) :
                               /\ sorted[k].score <= r.score
                               /\ \A m \in 1..(k - 1) : sorted[m].score > r.score,
                   Len(sorted))
    ELSE Append(sorted, r)

\* r put into a list sorted by non-increasing score, after the results
\* whose score is at least r's
InsertDesc(sorted, r) ==
    IF \E k \in 1..Len(sorted) : sorted[k].score < r.score
    THEN SubSeq(sorted, 1, (CHOOSE k \in 1..Len(sorted) :
                               /\ sorted[k].score < r.score
                               /\ \A m \in 1..(k - 1) : sorted[m].score >= r.score) - 1)
         \o <<r>>
         \o SubSeq(sorted, CHOOSE k \in 1..Len(sorted) :
                               /\ sorted[k].score < r.score
                               /\ \A m \in 1..(k - 1) : sorted[m].score >= r.score,
                   Len(sorted))
    ELSE Append(sorted, r)

RECURSIVE SortDesc(_, _)
\* results.sort(key=lambda r: r["score"], reverse=True): the sort is stable,
\* results of equal score keep their order
SortDesc(results, sorted) ==
    IF results = <<>> THEN sorted
    ELSE SortDesc(Tail(results), InsertDesc(sorted, Head(results)))

\* What a call of search produces: raised tells whether an exception left the
\* method; results is the list returned otherwise
SearchReturned(results) == [raised |-> FALSE, results |-> results]
SearchRaised == [raised |-> TRUE, results |-> <<>>]

\* the method after _build_query_text returned or raised.  store.ok tells
\* whether self.store.search returned; store.hits is what it returned.
SearchAfter(query_text, sq, store, limit, now) ==
    IF query_text.raised THEN SearchRaised
    ELSE IF ~store.ok \/ store.hits = <<>> THEN SearchReturned(<<>>)
    ELSE SearchReturned(SortDesc(Loop(store.hits, LoopStart, sq, limit, now).results,
                                 <<>>))

search(structured, store, limit, now) ==
    SearchAfter(_build_query_text(structured), structured.sq, store, limit, now)

\* ------------------------------------------------------------------------
\* integrations/vector_db/qdrant.py
\*
\* A payload handed to upsert has, next to the fields the ranking reads,
\* created_at: what the caller put under "created_at", of kind "datetime",
\* "iso" (a str that parses), "invalid" (a str that does not) or "missing",
\* with the day it denotes; and created_at_source: the tag the caller put,
\* if any.  created is what the payload has under "created_at_ts".
\* The collection maps a point id to the payload stored under it.
\* ------------------------------------------------------------------------

\* the branches 1 and 2 of _normalize_created_at
NormalizedFromPayload(payload) ==
    [payload EXCEPT !.created_at = [kind |-> "iso", day |-> payload.created_at.day],
                    !.created = [kind |-> "ts", day |-> payload.created_at.day],
                    !.created_at_source =
                        IF payload.created_at_source.some
                        THEN payload.created_at_source ELSE Some("source")]

\* the branch 3 of _normalize_created_at
NormalizedFromClock(payload, now) ==
    [payload EXCEPT !.created_at = [kind |-> "iso", day |-> now],
                    !.created = [kind |-> "ts", day |-> now],
                    !.created_at_source = Some("ingested")]

_normalize_created_at(payload, now) ==
    IF payload.created_at.kind \in {"datetime", "iso"}
    THEN NormalizedFromPayload(payload)
    ELSE NormalizedFromClock(payload, now)

\* the ids of a sequence of points
IdsOf(points) == {points[i].id : i \in 1..Len(points)}

\* the last point of the sequence with the id
LastWithId(points, id) ==
    points[CHOOSE i \in 1..Len(points) :
              /\ points[i].id = id
              /\ \A j \in (i + 1)..Len(points) : points[j].id # id]

\* QdrantStore.upsert: the collection after the call
upsert(collection, points, now) ==
    [id \in DOMAIN collection \cup IdsOf(points) |->
        IF id \in IdsOf(points)
        THEN _normalize_created_at(LastWithId(points, id).payload, now)
        ELSE collection[id]]

\* ------------------------------------------------------------------------
\* data_pipeline/index.py
\*
\* env is the environment of the process: env.provider is
\* EMBEDDING_PROVIDER, env.fails tells whether the provider's call fails,
\* env.blocked whether ingest is disabled (prod without ENABLE_INGEST).
\* A row of RawDocument has a content made of the __meta__ line put before
\* the text, if any, and the text.
\* ------------------------------------------------------------------------

OPENAI_VECTOR_SIZE == 1536
LOCAL_VECTOR_SIZE == 384
DETERMINISTIC_VECTOR_SIZE == 32

\* len(embed_text(text)) for a text that is not blank
EmbeddingLen(env) ==
    IF env.provider = "openai" /\ ~env.fails THEN OPENAI_VECTOR_SIZE
    ELSE IF env.provider = "local" /\ ~env.fails THEN LOCAL_VECTOR_SIZE
    ELSE DETERMINISTIC_VECTOR_SIZE

resolve_vector_size(env) ==
    IF env.provider = "openai" THEN OPENAI_VECTOR_SIZE
    ELSE IF env.provider = "local" THEN LOCAL_VECTOR_SIZE
    ELSE DETERMINISTIC_VECTOR_SIZE

\* ((doc.title or "") + "\n" + (doc.content or "")).strip() is empty
BlankDoc(doc) ==
    ~doc.content.meta.some /\ Strip(doc.title \o <<"nl">> \o doc.content.body) = <<>>

\* the payload index_raw_documents builds for a row
PayloadOf(doc) ==
    [url |-> doc.source_url, source |-> Some(doc.source), brand |-> NoneStr,
     sale_intent |-> "None", price |-> None, mileage |-> None,
     created_at |-> [kind |-> "iso", day |-> doc.fetched_at],
     created |-> [kind |-> "ts", day |-> doc.fetched_at],
     created_at_source |-> Some("fetched")]

RECURSIVE PointsOf(_, _)
\* the points index_raw_documents builds: none for a row without text or
\* with a vector of another length than the collection's
PointsOf(raw_docs, env) ==
    IF raw_docs = <<>> THEN <<>>
    ELSE (IF BlankDoc(Head(raw_docs)) \/ EmbeddingLen(env) # resolve_vector_size(env)
          THEN <<>>
          ELSE << [id |-> Head(raw_docs).id, payload |-> PayloadOf(Head(raw_docs))] >>)
         \o PointsOf(Tail(raw_docs), env)

\* store.upsert(points), skipped when there are no points
UpsertPoints(collection, points, now) ==
    IF points = <<>> THEN collection ELSE upsert(collection, points, now)

\* the rows for which embed_text printed "[EMBED][WARN] provider=... failed,
\* fallback to deterministic" and returned deterministic_embedding(text)
Fallbacks(raw_docs, env) ==
    IF ~env.fails THEN {}
    ELSE {[doc |-> raw_docs[i].id, provider |-> env.provider] :
             i \in {j \in 1..Len(raw_docs) : ~BlankDoc(raw_docs[j])}}

\* index_raw_documents: the collection after the call
index_raw_documents(raw_docs, collection, env, now) ==
    UpsertPoints(collection, PointsOf(raw_docs, env), now)

\* ------------------------------------------------------------------------
\* data_pipeline/ingest.py, ingest-worker/main.py, api/v1/demo.py
\*
\* An item is what a source adapter returns: source, source_url, title and
\* content.  The loop state of run_ingest has the table, the rows added in
\* this run and, for the claims, the decisions should_skip_doc returned.
\* ------------------------------------------------------------------------

\* Продам BMW X5 2019, пробег 40000 км, цена 3800000 руб
ScenarioA ==
    <<"Prodam", "sp", "BMW", "sp", "X", "5", "sp", "2019", "comma", "sp", "probeg",
      "sp", "40000", "sp", "km", "comma", "sp", "cena", "sp", "3800000", "sp", "rub">>

\* Ищу BMW, подскажите по комплектации
ScenarioB ==
    <<"Ishchu", "sp", "BMW", "comma", "sp", "podskazhite", "sp", "po", "sp",
      "komplektacii">>

\* Scenario A after 80 letters of other text
ScenarioALong == <<"pad80", "sp">> \o ScenarioA

\* the same listing with the price before the mileage:
\* <80 letters> Продам BMW X5, цена 3800000 руб, 2019, пробег 40000 км
ScenarioAPriceFirst ==
    <<"pad80", "sp", "Prodam", "sp", "BMW", "sp", "X", "5", "comma", "sp", "cena",
      "sp", "3800000", "sp", "rub", "comma", "sp", "2019", "comma", "sp", "probeg",
      "sp", "40000", "sp", "km">>

\* resolve_source_boost, in twentieths: "club" or "forum" in the name, then
\* "telegram" in the name, then every other name
resolve_source_boost(source) ==
    CASE source = "" -> 20
      [] source \in {"bmwclub", "benzclub", "bmwclub.ru", "benzclub.ru", "forum"} -> 30
      [] source = "telegram" -> 20
      [] OTHER -> 16

\* enrich_text_with_meta: the content with its __meta__ line (the brand of
\* the line comes from the catalog file and is left out)
enrich_text_with_meta(raw, source) ==
    [meta |-> Some([sale_intent |-> is_sale_intent(raw, DEFAULT_MIN_SALE_SCORE),
                    source_boost |-> resolve_source_boost(source)]),
     body |-> raw]

\* a content without __meta__ line
Plain(body) == [meta |-> [some |-> FALSE, val |-> <<>>], body |-> body]

\* a listing the gate keeps with sale intent, a question the gate skips, an
\* item without source_url and an item without text; a url has one source
ItemUniverse ==
    { [source |-> "bmwclub", source_url |-> Some("https://bmwclub.ru/1"),
       title |-> <<"BMW">>, content |-> ScenarioAPriceFirst],
      [source |-> "avito.ru", source_url |-> Some("https://Avito.ru/3"),
       title |-> <<>>, content |-> ScenarioB],
      [source |-> "telegram", source_url |-> NoneStr,
       title |-> <<>>, content |-> ScenarioAPriceFirst],
      [source |-> "drom.ru", source_url |-> Some("https://drom.ru/4"),
       title |-> <<>>, content |-> <<"sp">>] }

\* raw_text = f"{title}\n{content}".strip()
RawTextOf(item) == Strip(item.title \o <<"nl">> \o item.content)

\* what should_skip_doc(text=raw_text, source=source) returns for each item,
\* and what enrich_text_with_meta(raw_text=raw_text, source=source) returns
GateDecisions ==
    [item \in ItemUniverse |->
        should_skip_doc(Str(RawTextOf(item)), NoBlacklist, DEFAULT_MIN_SALE_SCORE)]
EnrichedContents ==
    [item \in ItemUniverse |-> enrich_text_with_meta(RawTextOf(item), item.source)]

\* SkipStats(): by_reason is the bag of the reasons counted
NewSkipStats == [total |-> 0, kept |-> 0, skipped |-> 0, by_reason |-> EmptyBag]

\* SkipStats.add(skip=skip, reason=reason)
add(stats, skip, reason) ==
    IF skip
    THEN [stats EXCEPT !.total = @ + 1, !.skipped = @ + 1,
                       !.by_reason = @ (+) SetToBag({reason})]
    ELSE [stats EXCEPT !.total = @ + 1, !.kept = @ + 1]

\* the loop state after a statement left the counter as stats: snaps has
\* the counter after each statement of the run that changed it
Counter(acc, stats) == [acc EXCEPT !.stats = stats, !.snaps = Append(@, stats)]

\* stats.total += 1 at the head of the loop body
Entered(acc) == Counter(acc, [acc.stats EXCEPT !.total = @ + 1])

\* stats.add(skip=True, reason=reason); continue
SkipItem(acc, reason) == Counter(acc, add(acc.stats, TRUE, reason))

\* skip_meta.get("reason", "unknown")
ReasonOf(d) == IF "reason" \in d.keys THEN d.reason ELSE "unknown"

\* session.add(doc), saved_docs.append(doc), stats.add(skip=False, reason="ok")
AddKept(acc, item, d, now) ==
    [table |-> Append(acc.table,
                      [id |-> Len(acc.table) + 1, source |-> item.source,
                       source_url |-> item.source_url, title |-> item.title,
                       content |-> EnrichedContents[item],
                       fetched_at |-> now]),
     saved |-> Append(acc.saved, Len(acc.table) + 1),
     log |-> acc.log \cup {[url |-> item.source_url, skip |-> FALSE,
                            sale_intent |-> d.sale_intent]},
     stats |-> add(acc.stats, FALSE, "ok"),
     snaps |-> Append(acc.snaps, add(acc.stats, FALSE, "ok"))]

\* the body of the loop after should_skip_doc returned d
AfterGate(acc, item, d, now) ==
    IF d.skip
    THEN SkipItem([acc EXCEPT !.log = @ \cup {[url |-> item.source_url, skip |-> TRUE,
                                               sale_intent |-> d.sale_intent]}],
                  ReasonOf(d))
    ELSE AddKept(acc, item, d, now)

\* the body of the loop after stats.total += 1
AfterEntered(acc, item, now) ==
    IF ~PresentStr(item.source_url) THEN SkipItem(acc, "no_source_url")
    ELSE IF \E i \in 1..Len(acc.table) : acc.table[i].source_url = item.source_url
    THEN SkipItem(acc, "duplicate")
    ELSE AfterGate(acc, item, GateDecisions[item], now)

\* one item of the anti-noise loop of run_ingest
IngestStep(acc, item, now) == AfterEntered(Entered(acc), item, now)

RECURSIVE IngestLoop(_, _, _)
IngestLoop(items, acc, now) ==
    IF items = <<>> THEN acc
    ELSE IngestLoop(Tail(items), IngestStep(acc, Head(items), now), now)

\* the rows of the table with the given ids, in the order of the ids
RowsOf(table, ids) == [i \in 1..Len(ids) |-> table[ids[i]]]

\* run_ingest after its loop: commit, then index_raw_documents(saved_docs)
IngestDone(acc, store, env, now) ==
    [store EXCEPT !.table = acc.table,
                  !.collection = index_raw_documents(RowsOf(acc.table, acc.saved), @,
                                                     env, now),
                  !.warned = @ \cup Fallbacks(RowsOf(acc.table, acc.saved), env),
                  !.snaps = acc.snaps,
                  !.log = acc.log]

\* run_ingest on the items its sources returned; store has the table, the
\* collection and the decisions made so far, and of the last run that
\* reached the loop the counter's values and the number of items
run_ingest(items, store, env, now) ==
    IF env.blocked \/ items = <<>> THEN store
    ELSE [IngestDone(IngestLoop(items, [table |-> store.table, saved |-> <<>>,
                                        log |-> store.log, stats |-> NewSkipStats,
                                        snaps |-> <<>>], now),
                     store, env, now)
          EXCEPT !.processed = Len(items)]

\* one item of the loop of save_items
SaveStep(table, item, now) ==
    IF \E i \in 1..Len(table) :
          table[i].source = item.source /\ table[i].source_url = item.source_url
    THEN table
    ELSE Append(table, [id |-> Len(table) + 1, source |-> item.source,
                        source_url |-> item.source_url, title |-> item.title,
                        content |-> Plain(item.content), fetched_at |-> now])

RECURSIVE save_items(_, _, _)
\* save_items of the ingest worker: the table after the call
save_items(items, table, now) ==
    IF items = <<>> THEN table
    ELSE save_items(Tail(items), SaveStep(table, Head(items), now), now)

\* session.query(RawDocument).order_by(RawDocument.id.desc()).limit(50).all()
DEMO_CAP == 50
RecentRows(table) ==
    [i \in 1..(IF Len(table) < DEMO_CAP THEN Len(table) ELSE DEMO_CAP) |->
        table[Len(table) + 1 - i]]

\* demo_seed after run_ingest returned
SeedIndex(store, env, now) ==
    IF store.table = <<>> THEN store
    ELSE [store EXCEPT !.collection =
              index_raw_documents(RecentRows(store.table), store.collection, env, now),
                       !.warned = @ \cup Fallbacks(RecentRows(store.table), env)]

\* demo_seed: _check_demo_allowed, run_ingest, index of the recent rows
demo_seed(items, store, env, now) ==
    IF env.blocked THEN store ELSE SeedIndex(run_ingest(items, store, env, now), env, now)

\* ------------------------------------------------------------------------
\* data_pipeline/telegram_filters.py
\* ------------------------------------------------------------------------

MIN_TEXT_LEN == 80

\* подписывайтесь, вакансия, работа, скидк, акция, ищу, куплю, обсуждение,
\* опрос, новости, ремонт, диагностика, ошибка, проблема, запчасти, разбор
STOP_WORDS ==
    << <<"podpisyvaytes">>, <<"vakansiya">>, <<"rabota">>, <<"skidk">>, <<"akciya">>,
       <<"ishchu">>, <<"kuplyu">>, <<"obsuzhdenie">>, <<"opros">>, <<"novosti">>,
       <<"remont">>, <<"diagnostika">>, <<"oshibka">>, <<"problema">>,
       <<"zapchasti">>, <<"razbor">> >>

SALE_POSITIVE_WORDS ==
    << <<"prodam">>, <<"prodayu">>, <<"prodaetsya">>, <<"prodayotsya">>, <<"prodazha">>,
       <<"srochno", "sp", "prodam">>, <<"torg">>, <<"obmen">>,
       <<"rassmotryu", "sp", "obmen">>,
       <<"for", "sp", "sale">>, <<"sale">>, <<"selling">>, <<"sell">> >>

SALE_NEGATIVE_WORDS ==
    << <<"ishchu">>, <<"kuplyu">>, <<"nuzhen">>, <<"podskazhite">>, <<"pomogite">>,
       <<"chto", "sp", "luchshe">>, <<"vopros">>,
       <<"looking", "sp", "for">>, <<"help">>, <<"question">>, <<"repair">> >>

\* \d[\d\s]{1,n} ending right before position j: a digit at i, only digits
\* and whitespace from i to j - 1, and at least one character after the
\* digit's first one.  (The texts modelled have at most n characters there.)
DigitRunBefore(t, j) ==
    \E i \in 1..(j - 1) :
        /\ IsDigit(t[i])
        /\ \A k \in i..(j - 1) : IsDigit(t[k]) \/ IsSpace(t[k])
        /\ CharLen(t[i]) >= 2 \/ i < j - 1

\* RE_PRICE.search(t): (\d[\d\s]{1,10})\s*(₽|руб|р\.|тыс|к|k|\$|€)
RE_PRICE(t) ==
    \E j \in 1..Len(t) : SalePriceUnitAt(t[j]) # "none" /\ DigitRunBefore(t, j)

\* RE_MILEAGE.search(t): \d[\d\s]{1,8}\s*км
RE_MILEAGE(t) == \E j \in 1..Len(t) : t[j] = "km" /\ DigitRunBefore(t, j)

\* any en, ru or alias token of the whitelist is a substring of text.lower()
BrandIn(t, whitelist) ==
    \E k \in 1..Len(whitelist) :
        \/ \E e \in 1..Len(whitelist[k].exact) : HasPhrase(t, <<whitelist[k].exact[e]>>)
        \/ \E a \in 1..Len(whitelist[k].aliases) :
              HasPhrase(t, <<whitelist[k].aliases[a]>>)

contains_brand(s, whitelist) == IF s = <<>> THEN FALSE ELSE BrandIn(Lower(s), whitelist)

\* RE_YEAR, RE_PRICE or RE_MILEAGE is found
contains_digits(s) ==
    IF s = <<>> THEN FALSE
    ELSE YEAR_PATTERN(s).some \/ RE_PRICE(s) \/ RE_MILEAGE(s)

\* the score of the lower-cased text t
TelegramSaleScore(t) ==
    2 * Cardinality(WordsPresent(t, SALE_POSITIVE_WORDS))
    + (IF RE_PRICE(t) THEN 1 ELSE 0)
    - 2 * Cardinality(WordsPresent(t, SALE_NEGATIVE_WORDS))

\* telegram_filters.is_sale_intent(text, min_score)
telegram_is_sale_intent(s, min_score) ==
    IF s = <<>> THEN FALSE ELSE TelegramSaleScore(Lower(s)) >= min_score

\* rules 1-5 of is_valid_telegram_post on t = text.lower()
TelegramRules(t, whitelist) ==
    IF StrLen(t) < MIN_TEXT_LEN THEN [ok |-> FALSE, reason |-> "text_too_short"]
    ELSE IF WordsPresent(t, STOP_WORDS) # {} THEN [ok |-> FALSE, reason |-> "stop_word"]
    ELSE IF ~telegram_is_sale_intent(t, 2) THEN [ok |-> FALSE, reason |-> "not_sale_intent"]
    ELSE IF ~contains_brand(t, whitelist) THEN [ok |-> FALSE, reason |-> "no_brand"]
    ELSE IF ~contains_digits(t) THEN [ok |-> FALSE, reason |-> "no_numeric_signals"]
    ELSE [ok |-> TRUE, reason |-> "ok"]

\* the tuple (ok, reason) with the catalog BRANDS_WHITELIST was loaded from
is_valid_telegram_post(s, whitelist) ==
    IF s = <<>> THEN [ok |-> FALSE, reason |-> "empty_text"]
    ELSE TelegramRules(Lower(s), whitelist)

\* ------------------------------------------------------------------------
\* integrations/sources/telegram.py
\* ------------------------------------------------------------------------

TG_FETCH_LIMIT == 50

\* bool(x) of a tuple of two elements: a tuple that is not empty is true
TupleTruth(pair) == TRUE

\* what iter_messages yields: a Message with text, a Message without text
\* (media only), or an object that is no Message (a service message)
TextMessage(s) == [kind |-> "text", content |-> s]
MediaMessage == [kind |-> "media", content |-> <<>>]
ServiceMessage == [kind |-> "service", content |-> <<>>]

\* the counters and the items of _fetch_from_channel before the first message
FetchStart == [items |-> <<>>, total |-> 0, accepted |-> 0, skipped |-> 0]

\* a message counted as skipped
Skipped(acc) == [acc EXCEPT !.total = @ + 1, !.skipped = @ + 1]

\* the dict appended for the message with id n whose stripped text is s
ItemOf(s, channel, n) ==
    [source |-> "telegram", source_url |-> <<channel, n>>, content |-> s,
     created_at_source |-> "telegram"]

\* a message appended to items
Accepted(acc, s, channel, n) ==
    [acc EXCEPT !.total = @ + 1, !.accepted = @ + 1,
                !.items = Append(@, ItemOf(s, channel, n))]

\* the body of the loop for message msg with id n
FetchMessage(acc, msg, channel, n, whitelist) ==
    IF msg.kind = "service" THEN Skipped(acc)
    ELSE IF msg.content = <<>> THEN Skipped(acc)
    ELSE IF ~TupleTruth(is_valid_telegram_post(Strip(msg.content), whitelist))
    THEN Skipped(acc)
    ELSE Accepted(acc, Strip(msg.content), channel, n)

RECURSIVE FetchLoop(_, _, _, _, _)
\* async for msg in client.iter_messages(channel, limit=limit), from message n
FetchLoop(acc, msgs, channel, n, whitelist) ==
    IF n > Len(msgs) THEN acc
    ELSE FetchLoop(FetchMessage(acc, msgs[n], channel, n, whitelist),
                   msgs, channel, n + 1, whitelist)

\* the first limit messages of the channel
Limited(msgs, limit) == IF Len(msgs) > limit THEN SubSeq(msgs, 1, limit) ELSE msgs

_fetch_from_channel(msgs, channel, limit, whitelist) ==
    FetchLoop(FetchStart, Limited(msgs, limit), channel, 1, whitelist)

\* what fetch_telegram produces: the RuntimeError of the missing settings, or
\* the results and, per channel, the counters _fetch_from_channel printed
TelegramRaised == [raised |-> TRUE, results |-> <<>>, printed |-> <<>>]
TelegramStart == [raised |-> FALSE, results |-> <<>>, printed |-> <<>>]

\* results.extend(items) after one channel
Extended(out, fetched) ==
    [out EXCEPT !.results = @ \o fetched.items,
                !.printed = Append(@, [fetched EXCEPT !.items = Len(@)])]

RECURSIVE ChannelLoop(_, _, _, _, _)
\* for channel in channels: a channel whose iteration raises is logged and
\* adds nothing
ChannelLoop(out, channels, c, limit, whitelist) ==
    IF c > Len(channels) THEN out
    ELSE IF channels[c].fails
    THEN ChannelLoop(out, channels, c + 1, limit, whitelist)
    ELSE ChannelLoop(Extended(out, _fetch_from_channel(channels[c].messages, c,
                                                       limit, whitelist)),
                     channels, c + 1, limit, whitelist)

\* limit = limit_per_channel or TG_FETCH_LIMIT
LimitOrDefault(limit_per_channel) ==
    IF limit_per_channel = 0 THEN TG_FETCH_LIMIT ELSE limit_per_channel

fetch_telegram(configured, channels, limit_per_channel, whitelist) ==
    IF ~configured THEN TelegramRaised
    ELSE ChannelLoop(TelegramStart, channels, 1, LimitOrDefault(limit_per_channel),
                     whitelist)

\* ------------------------------------------------------------------------
\* should_skip_doc called on one text
\* ------------------------------------------------------------------------

\* longest generated text, in atoms
MaxGateLen == 3

GateAlphabet ==
    {"pad80", "sp", "tab", "layk", "prodam", "ishchu", "2019", "1990", "40000",
     "500", "km", "rub", "tys"}

GateTexts ==
    {Str(s) : s \in SeqsUpTo(GateAlphabet, MaxGateLen)}
    \cup {Str(ScenarioA), Str(ScenarioB), Str(ScenarioALong), Str(ScenarioAPriceFirst)}
    \cup {NoneText, IntText}

BlacklistArgs == {NoBlacklist, WordList(<< <<"2019">> >>), BadList(<<>>)}

NoDecision == Outcome(FALSE, FALSE, "", {}, FALSE, 0)

\* no call of should_skip_doc is modelled
GateIdle == text = NoneText /\ blacklist = NoBlacklist /\ decision = NoDecision

\* no call of parse_query is modelled
ParseIdle == raw_text = NoneText /\ parsed = Returned(StructuredQuery(<<>>))

\* no call of search is modelled
SearchIdle ==
    /\ structuredArg = [has_region |-> FALSE, sq |-> StructuredQuery(<<>>)]
    /\ storeAnswer = [ok |-> FALSE, hits |-> <<>>]
    /\ limitArg = DEFAULT_LIMIT
    /\ nowDay = 0
    /\ response = SearchReturned(<<>>)
    /\ previous = SearchReturned(<<>>)

\* no call of _score_hit is modelled
ScoreIdle == scoreCall = <<>> /\ scores = <<>>

\* no call of is_sale_intent is modelled
SaleIdle == saleCall = [text |-> <<>>, min_score |-> 0] /\ saleAnswer = FALSE

\* no call of a brand matcher is modelled
BrandIdle ==
    /\ brandCall = [fn |-> "", text |-> <<>>, catalog |-> <<>>]
    /\ brandAnswer = [brand |-> NoneStr, confidence |-> 0]

\* no item is followed from ingest to ranking
BoostIdle ==
    /\ boostCall = [source |-> "", raw_text |-> <<>>]
    /\ boostAnswer = [ingest |-> None, rank |-> None]

\* no call of fetch_telegram is modelled
TelegramIdle ==
    /\ tgCall = [configured |-> FALSE, channels |-> <<>>, limit_per_channel |-> 0,
                 whitelist |-> <<>>]
    /\ tgAnswer = TelegramStart

\* an empty table and an empty collection, before the first run
EmptyDb == [table |-> <<>>, collection |-> <<>>, log |-> {}, calls |-> 0,
            warned |-> {}, snaps |-> <<>>, processed |-> 0]

InitGate ==
    /\ pc = "call"
    /\ text \in GateTexts
    /\ blacklist \in BlacklistArgs
    /\ decision = NoDecision
    /\ ParseIdle
    /\ SearchIdle
    /\ ScoreIdle
    /\ db = EmptyDb
    /\ BoostIdle
    /\ TelegramIdle
    /\ BrandIdle
    /\ SaleIdle

\* skip, skip_meta = should_skip_doc(text=raw_text, source=source)
ShouldSkipDoc ==
    /\ pc = "call"
    /\ decision' = should_skip_doc(text, blacklist, DEFAULT_MIN_SALE_SCORE)
    /\ pc' = "done"
    /\ UNCHANGED <<boostVars, tgVars, brandVars, saleVars, text, blacklist, parseVars, searchVars, scoreVars, db>>

NextGate == ShouldSkipDoc

SpecGate == InitGate /\ [][NextGate]_vars

\* ------------------------------------------------------------------------
\* parse_query called on one query
\* ------------------------------------------------------------------------

\* longest generated query, in atoms
MaxQueryLen == 3

QueryAlphabet ==
    {"BMW", "bumer", "do", "sp", "tab", "nbsp", "1", "000", "km", "rub", "tys",
     "benzin", "nebityy", "dollar"}

\* BMW до 50000 км, без окрасов, бензин
ScenarioC ==
    <<"BMW", "sp", "do", "sp", "50000", "sp", "km", "comma", "sp", "bez", "sp",
      "okrasov", "comma", "sp", "benzin">>

\* до 1<TAB>000 руб
TabInNumber == <<"do", "sp", "1", "tab", "000", "sp", "rub">>

\* свежие дизель Москва не битый, до 5 млн
ScenarioWords ==
    <<"svezhie", "sp", "dizel", "sp", "moskva", "sp", "ne", "sp", "bityy", "comma",
      "sp", "do", "sp", "5", "sp", "mln">>

\* до 500 тыс руб
PriceInThousands == <<"do", "sp", "500", "sp", "tys", "sp", "rub">>

QueryTexts ==
    {Str(s) : s \in SeqsUpTo(QueryAlphabet, MaxQueryLen)}
    \cup {Str(ScenarioC), Str(TabInNumber), Str(ScenarioWords), NoneText,
          Str(PriceInThousands)}

InitParse ==
    /\ pc = "call"
    /\ raw_text \in QueryTexts
    /\ parsed = Returned(StructuredQuery(<<>>))
    /\ GateIdle
    /\ SearchIdle
    /\ ScoreIdle
    /\ db = EmptyDb
    /\ BoostIdle
    /\ TelegramIdle
    /\ BrandIdle
    /\ SaleIdle

\* structured = parse_query(request.query)
ParseQuery ==
    /\ pc = "call"
    /\ parsed' = parse_query(raw_text)
    /\ pc' = "done"
    /\ UNCHANGED <<boostVars, tgVars, brandVars, saleVars, raw_text, gateVars, searchVars, scoreVars, db>>

NextParse == ParseQuery

SpecParse == InitParse /\ [][NextParse]_vars

\* ------------------------------------------------------------------------
\* SearchService.search called on one query and one answer of the store
\* ------------------------------------------------------------------------

\* longest generated hit sequence
MaxHits == 3

\* a limit small enough for the loop to stop at it
SmallLimit == 2

\* the days on which the call is made
CallDays == {360, 369}

\* bmw;  bmw до 1 млн;  bmw до 1000 км
SearchQueries ==
    { <<"bmw">>,
      <<"bmw", "sp", "do", "sp", "1", "sp", "mln">>,
      <<"bmw", "sp", "do", "sp", "1", "000", "sp", "km">> }

\* the structured argument: what parse_query returned for a query, as an
\* instance of StructuredQuery (no attribute region) or as an object that
\* has the same fields and an attribute region that is None
StructuredArgs ==
    {[has_region |-> r, sq |-> parse_query(Str(q)).sq] :
        r \in BOOLEAN, q \in SearchQueries}

\* a payload with every field the ranking reads, and one with only url and source
Rich(url, source, day) ==
    [url |-> url, source |-> source, brand |-> Some("BMW"), sale_intent |-> "1",
     price |-> Some(500000), mileage |-> Some(500), created |-> [kind |-> "ts", day |-> day]]
Poor(url, source) ==
    [url |-> url, source |-> source, brand |-> NoneStr, sale_intent |-> "None",
     price |-> None, mileage |-> None, created |-> [kind |-> "missing", day |-> 0]]

\* a payload whose price and mileage are above the ceilings of SearchQueries
Expensive(url, source, day) ==
    [Rich(url, source, day) EXCEPT !.price = Some(1500000), !.mileage = Some(1500)]

Hit(score, payload) == [score |-> score, payload |-> payload]

HitUniverse ==
    { Hit(903, Rich(Some("https://bmwclub.ru/1"), Some("forum"), 351)),
      Hit(800, Poor(Some("https://bmwclub.ru/2"), Some("forum"))),
      Hit(800, Poor(Some("https://Avito.ru/3"), Some("bmwclub.ru"))),
      Hit(702, Rich(Some("https://drom.ru/4"), Some("forum"), 270)),
      Hit(700, Poor(Some("https://drom.ru/4"), Some("avito.ru"))),
      Hit(600, Poor(Some("t.me/5"), NoneStr)),
      Hit(901, Rich(Some("https://Avito.ru/3"), Some("avito.ru"), 90)),
      Hit(500, Poor(NoneStr, Some("forum"))),
      Hit(503, Rich(Some("https://bmwclub.ru/1"), Some("avito.ru"), 360)) }

\* four hits of one source with distinct urls, then the url of the fourth
\* again under another source
CapThenDuplicate ==
    << Hit(900, Poor(Some("https://bmwclub.ru/1"), Some("forum"))),
       Hit(800, Poor(Some("https://bmwclub.ru/2"), Some("forum"))),
       Hit(800, Poor(Some("https://Avito.ru/3"), Some("forum"))),
       Hit(702, Rich(Some("https://drom.ru/4"), Some("forum"), 270)),
       Hit(700, Poor(Some("https://drom.ru/4"), Some("avito.ru"))) >>

\* Scenario E: six candidates, five of them of one source
ScenarioE ==
    << Hit(900, Poor(Some("https://bmwclub.ru/1"), Some("forum"))),
       Hit(800, Poor(Some("https://bmwclub.ru/2"), Some("forum"))),
       Hit(800, Poor(Some("https://Avito.ru/3"), Some("avito.ru"))),
       Hit(702, Rich(Some("https://drom.ru/4"), Some("forum"), 270)),
       Hit(600, Poor(Some("t.me/5"), Some("forum"))),
       Hit(500, Poor(Some("t.me/6"), Some("forum"))) >>

\* four hits without a source name
FourUnnamed ==
    << Hit(900, Poor(Some("https://bmwclub.ru/1"), NoneStr)),
       Hit(800, Poor(Some("https://bmwclub.ru/2"), NoneStr)),
       Hit(800, Poor(Some("https://Avito.ru/3"), Some(""))),
       Hit(700, Poor(Some("https://drom.ru/4"), NoneStr)) >>

\* Scenario D: two candidates with the same semantic score and payloads that
\* differ in source and url only, one of a forum and one of a marketplace, in
\* either order of arrival; the urls are on one host or on two
ScenarioDPayloads ==
    { Poor(NoneStr, NoneStr), Rich(NoneStr, NoneStr, 351) }
ScenarioDScores == {-303, 0, 1, 803}
ScenarioDPairs ==
    { << Hit(s, [p EXCEPT !.url = Some("https://bmwclub.ru/1"), !.source = Some(f)]),
         Hit(s, [p EXCEPT !.url = Some(u), !.source = Some(k)]) >> :
        s \in ScenarioDScores, p \in ScenarioDPayloads,
        f \in {"forum"}, k \in {"avito.ru"},
        u \in {"https://bmwclub.ru/2", "https://Avito.ru/3"} }
ScenarioD == ScenarioDPairs \cup { <<h[2], h[1]>> : h \in ScenarioDPairs }

\* what the store does: it raises, or it returns a sequence of hits
StoreAnswers ==
    {[ok |-> FALSE, hits |-> <<>>]}
    \cup {[ok |-> TRUE, hits |-> h] :
            h \in SeqsUpTo(HitUniverse, MaxHits)
                   \cup {CapThenDuplicate, ScenarioE, FourUnnamed} \cup ScenarioD}

InitSearch ==
    /\ pc = "call"
    /\ structuredArg \in StructuredArgs
    /\ storeAnswer \in StoreAnswers
    /\ limitArg \in {DEFAULT_LIMIT, SmallLimit}
    /\ nowDay \in CallDays
    /\ response = SearchReturned(<<>>)
    /\ previous = SearchReturned(<<>>)
    /\ GateIdle
    /\ ParseIdle
    /\ ScoreIdle
    /\ db = EmptyDb
    /\ BoostIdle
    /\ TelegramIdle
    /\ BrandIdle
    /\ SaleIdle

\* results = service.search(structured)
Search ==
    /\ pc = "call"
    /\ response' = search(structuredArg, storeAnswer, limitArg, nowDay)
    /\ pc' = "done"
    /\ UNCHANGED <<boostVars, tgVars, brandVars, saleVars, structuredArg, storeAnswer, limitArg, nowDay, previous, gateVars, parseVars, scoreVars, db>>

NextSearch == Search

SpecSearch == InitSearch /\ [][NextSearch]_vars

\* ------------------------------------------------------------------------
\* SearchService.search called twice on the same query and the same answer
\* of the store; the clock read by _score_hit may have advanced in between
\* ------------------------------------------------------------------------

\* longest hit sequence of the repeated call
MaxRankHits == 2

\* a marketplace hit that is 9 days old on the first day of CallDays and a
\* forum hit without a timestamp
AgedBetweenCalls ==
    << Hit(800, [Poor(Some("https://Avito.ru/3"), Some("avito.ru"))
                    EXCEPT !.created = [kind |-> "ts", day |-> 351]]),
       Hit(920, Poor(Some("https://bmwclub.ru/2"), Some("forum"))) >>

RankAnswers ==
    {[ok |-> FALSE, hits |-> <<>>]}
    \cup {[ok |-> TRUE, hits |-> h] :
            h \in SeqsUpTo(HitUniverse, MaxRankHits) \cup {AgedBetweenCalls}}

InitRank ==
    /\ pc = "call"
    /\ structuredArg \in StructuredArgs
    /\ storeAnswer \in RankAnswers
    /\ limitArg \in {DEFAULT_LIMIT, SmallLimit}
    /\ nowDay \in CallDays
    /\ response = SearchReturned(<<>>)
    /\ previous = SearchReturned(<<>>)
    /\ GateIdle
    /\ ParseIdle
    /\ ScoreIdle
    /\ db = EmptyDb
    /\ BoostIdle
    /\ TelegramIdle
    /\ BrandIdle
    /\ SaleIdle

\* results = service.search(structured), a second time: datetime.now() and
\* datetime.utcnow() in _score_hit return the time of this call
SearchAgain ==
    /\ pc = "done"
    /\ nowDay' \in {d \in CallDays : d >= nowDay}
    /\ previous' = response
    /\ response' = search(structuredArg, storeAnswer, limitArg, nowDay')
    /\ pc' = "again"
    /\ UNCHANGED <<boostVars, tgVars, brandVars, saleVars, structuredArg, storeAnswer, limitArg, gateVars, parseVars, scoreVars, db>>

NextRank == Search \/ SearchAgain

SpecRank == InitRank /\ [][NextRank]_vars

\* ------------------------------------------------------------------------
\* _score_hit called at one instant on two candidates that differ in their
\* timestamp only
\* ------------------------------------------------------------------------

\* largest source_rank and domain_rank of the calls
MaxRank == 1

\* what a payload has as created_at_ts / created_at
CreatedValues ==
    {[kind |-> "ts", day |-> d] : d \in {90, 351, 360, 400}}
    \cup {[kind |-> "iso", day |-> d] : d \in {90, 351, 400}}
    \cup {[kind |-> "aware", day |-> d] : d \in {351, 360}}
    \cup {[kind |-> "invalid", day |-> 0], [kind |-> "missing", day |-> 0]}

\* the arguments of one call of _score_hit
ScoreArgs ==
    [vector_score : {0, 500, 903},
     payload : {[p EXCEPT !.created = c] :
                   p \in {Rich(Some("https://bmwclub.ru/1"), Some("forum"), 0),
                          Expensive(Some("https://bmwclub.ru/2"), Some("forum"), 0),
                          Poor(Some("https://Avito.ru/3"), Some("avito.ru"))},
                   c \in CreatedValues},
     sq : {parse_query(Str(q)).sq : q \in SearchQueries},
     source_rank : 0..MaxRank,
     domain_rank : 0..MaxRank]

InitScore ==
    /\ pc = "call"
    /\ \E a \in ScoreArgs, c \in CreatedValues, now \in CallDays :
          scoreCall = [a |-> a, b |-> [a EXCEPT !.payload.created = c], now |-> now]
    /\ scores = <<>>
    /\ GateIdle
    /\ ParseIdle
    /\ SearchIdle
    /\ db = EmptyDb
    /\ BoostIdle
    /\ TelegramIdle
    /\ BrandIdle
    /\ SaleIdle

ScoreOne(args, now) ==
    _score_hit(args.vector_score, args.payload, args.sq,
               args.source_rank, args.domain_rank, now)

\* final_score, reasons = self._score_hit(...), for each of the two candidates
ScoreHit ==
    /\ pc = "call"
    /\ scores' = [a |-> ScoreOne(scoreCall.a, scoreCall.now),
                  b |-> ScoreOne(scoreCall.b, scoreCall.now)]
    /\ pc' = "done"
    /\ UNCHANGED <<boostVars, tgVars, brandVars, saleVars, scoreCall, gateVars, parseVars, searchVars, db>>

NextScore == ScoreHit

SpecScore == InitScore /\ [][NextScore]_vars

\* ------------------------------------------------------------------------
\* The ingestion paths, the index and the search over what was indexed
\* ------------------------------------------------------------------------

\* longest batch of items the sources return to one run
MaxBatch == 2

\* the number of runs of the ingestion paths
MaxRuns == 3

\* largest point id of the collection: the ids of the rows start at 1
MaxPointId == MaxRuns * MaxBatch

\* one more run was made
Counted(store) == [store EXCEPT !.calls = @ + 1]

\* the items of one run: distinct items in some order
Batches ==
    {b \in SeqsUpTo(ItemUniverse, MaxBatch) :
        \A i, j \in 1..Len(b) : i # j => b[i] # b[j]}

Environments ==
    {[blocked |-> TRUE, provider |-> "openai", fails |-> FALSE]}
    \cup {[blocked |-> FALSE, provider |-> p, fails |-> f] :
            p \in {"openai", "local", "deterministic"}, f \in BOOLEAN}

\* points a caller other than index_raw_documents hands to upsert, under an
\* id no row has
DirectPoints ==
    { << [id |-> 0,
          payload |-> [Poor(Some("t.me/5"), Some("telegram"))
                          EXCEPT !.created = [kind |-> "missing", day |-> 0]]
                      @@ [created_at |-> c, created_at_source |-> t]] >> :
        c \in {[kind |-> "datetime", day |-> 351], [kind |-> "iso", day |-> 351],
               [kind |-> "invalid", day |-> 0], [kind |-> "missing", day |-> 0]},
        t \in {NoneStr} }

InitIngest ==
    /\ pc = "call"
    /\ db = EmptyDb
    /\ BoostIdle
    /\ TelegramIdle
    /\ BrandIdle
    /\ SaleIdle
    /\ structuredArg = [has_region |-> TRUE, sq |-> parse_query(Str(<<"bmw">>)).sq]
    /\ storeAnswer = [ok |-> FALSE, hits |-> <<>>]
    /\ limitArg = DEFAULT_LIMIT
    /\ nowDay \in CallDays
    /\ response = SearchReturned(<<>>)
    /\ previous = SearchReturned(<<>>)
    /\ GateIdle
    /\ ParseIdle
    /\ ScoreIdle

\* run_ingest()
RunIngest ==
    /\ pc = "call"
    /\ db.calls < MaxRuns
    /\ \E items \in Batches, env \in Environments :
          db' = Counted(run_ingest(items, db, env, nowDay))
    /\ UNCHANGED <<boostVars, tgVars, brandVars, saleVars, pc, gateVars, parseVars, searchVars, scoreVars>>

\* the ingest worker: saved, skipped = save_items(total)
SaveItems ==
    /\ pc = "call"
    /\ db.calls < MaxRuns
    /\ \E items \in Batches :
          db' = Counted([db EXCEPT !.table = save_items(items, @, nowDay)])
    /\ UNCHANGED <<boostVars, tgVars, brandVars, saleVars, pc, gateVars, parseVars, searchVars, scoreVars>>

\* POST /demo/seed
DemoSeed ==
    /\ pc = "call"
    /\ db.calls < MaxRuns
    /\ \E items \in Batches, env \in Environments :
          db' = Counted(demo_seed(items, db, env, nowDay))
    /\ UNCHANGED <<boostVars, tgVars, brandVars, saleVars, pc, gateVars, parseVars, searchVars, scoreVars>>

\* QdrantStore.upsert called with points of another caller
Upsert ==
    /\ pc = "call"
    /\ db.calls < MaxRuns
    /\ \E points \in DirectPoints :
          db' = Counted([db EXCEPT !.collection = UpsertPoints(@, points, nowDay)])
    /\ UNCHANGED <<boostVars, tgVars, brandVars, saleVars, pc, gateVars, parseVars, searchVars, scoreVars>>

RECURSIVE StoredHits(_, _)
\* the points of the collection with an id up to n as hits of one similarity
StoredHits(collection, n) ==
    IF n < 0 THEN <<>>
    ELSE StoredHits(collection, n - 1)
         \o (IF n \in DOMAIN collection THEN <<Hit(803, collection[n])>> ELSE <<>>)

\* a search whose candidates are the points of the collection
SearchStored ==
    /\ pc = "call"
    /\ db.collection # <<>>
    /\ storeAnswer' = [ok |-> TRUE, hits |-> StoredHits(db.collection, MaxPointId)]
    /\ response' = search(structuredArg, storeAnswer', limitArg, nowDay)
    /\ pc' = "done"
    /\ UNCHANGED <<boostVars, tgVars, brandVars, saleVars, structuredArg, limitArg, nowDay, previous, gateVars, parseVars,
                   scoreVars, db>>

NextIngest == RunIngest \/ SaveItems \/ DemoSeed \/ Upsert \/ SearchStored

SpecIngest == InitIngest /\ [][NextIngest]_vars

\* ------------------------------------------------------------------------
\* is_sale_intent called on one text with one min_score
\* ------------------------------------------------------------------------

\* longest generated text, in atoms
MaxSaleLen == 4

\* largest generated min_score
MaxMinScore == 3

SaleAlphabet == {"Prodam", "ishchu", "500", "sp", "rub", "km"}

SaleTexts == SeqsUpTo(SaleAlphabet, MaxSaleLen)

SaleThresholds == (0 - 1)..MaxMinScore

InitSale ==
    /\ pc = "call"
    /\ saleCall \in [text : SaleTexts, min_score : SaleThresholds]
    /\ saleAnswer = FALSE
    /\ GateIdle
    /\ ParseIdle
    /\ SearchIdle
    /\ ScoreIdle
    /\ db = EmptyDb
    /\ BoostIdle
    /\ TelegramIdle
    /\ BrandIdle

\* is_sale_intent(text, min_score)
IsSaleIntent ==
    /\ pc = "call"
    /\ saleAnswer' = is_sale_intent(saleCall.text, saleCall.min_score)
    /\ pc' = "done"
    /\ UNCHANGED <<boostVars, tgVars, brandVars, saleCall, gateVars, parseVars, searchVars, scoreVars, db>>

NextSale == IsSaleIntent

SpecSale == InitSale /\ [][NextSale]_vars

\* ------------------------------------------------------------------------
\* _extract_brand and detect_brand called on one text with one catalog
\* ------------------------------------------------------------------------

\* longest generated text, in atoms
MaxBrandLen == 3

BrandAlphabet == {"bmw", "bumer", "mini", "minivan", "sp"}

BrandTexts == SeqsUpTo(BrandAlphabet, MaxBrandLen)

\* two entries of a brands.yaml, and the catalogs that list one or both
BmwEntry == [brand |-> "bmw", exact |-> <<"bmw">>, aliases |-> <<"bumer">>]
MiniEntry == [brand |-> "mini", exact |-> <<"mini">>, aliases |-> <<>>]

Catalogs == {BRANDS_CONFIG, <<BmwEntry, MiniEntry>>, <<MiniEntry, BmwEntry>>}

InitBrand ==
    /\ pc = "call"
    /\ brandCall \in [fn : {"_extract_brand", "detect_brand"}, text : BrandTexts,
                      catalog : Catalogs]
    /\ brandAnswer = [brand |-> NoneStr, confidence |-> 0]
    /\ GateIdle
    /\ ParseIdle
    /\ SearchIdle
    /\ ScoreIdle
    /\ SaleIdle
    /\ db = EmptyDb
    /\ BoostIdle
    /\ TelegramIdle

\* brand, confidence = _extract_brand(text)
ExtractBrand ==
    /\ pc = "call"
    /\ brandCall.fn = "_extract_brand"
    /\ brandAnswer' = ExtractBrandFrom(brandCall.text, brandCall.catalog)
    /\ pc' = "done"
    /\ UNCHANGED <<boostVars, tgVars, brandCall, gateVars, parseVars, searchVars, scoreVars, db, saleVars>>

\* brand, confidence = detect_brand(text)
DetectBrand ==
    /\ pc = "call"
    /\ brandCall.fn = "detect_brand"
    /\ brandAnswer' = detect_brand(brandCall.text, brandCall.catalog)
    /\ pc' = "done"
    /\ UNCHANGED <<boostVars, tgVars, brandCall, gateVars, parseVars, searchVars, scoreVars, db, saleVars>>

NextBrand == ExtractBrand \/ DetectBrand

SpecBrand == InitBrand /\ [][NextBrand]_vars

\* ------------------------------------------------------------------------
\* fetch_telegram called on channels with a few messages
\* ------------------------------------------------------------------------

\* most messages of all channels together
MaxMessages == 2

\* most channels of TG_CHANNELS
MaxChannels == 2

\* message texts: one of whitespace, one that is too short, one with a stop
\* word, one without sale intent, one without a brand, one without a number,
\* and a listing that passes every rule of the filter
TelegramTexts ==
    { <<"sp">>,
      <<"Prodam", "sp", "BMW">>,
      <<"pad80", "sp", "Ishchu", "sp", "BMW">>,
      <<"pad80", "sp", "BMW", "sp", "2019">>,
      <<"pad80", "sp", "Prodam", "sp", "2019">>,
      <<"pad80", "sp", "Prodam", "sp", "BMW">>,
      <<"pad80", "sp", "Prodam", "sp", "BMW", "sp", "2019", "sp">> }

Messages == {TextMessage(s) : s \in TelegramTexts} \cup {MediaMessage, ServiceMessage}

\* a channel: its messages, newest first, or the failure of reading it
ChannelContents(budget) ==
    {[fails |-> FALSE, messages |-> ms] : ms \in SeqsUpTo(Messages, budget)}
    \cup {[fails |-> TRUE, messages |-> <<>>]}

RECURSIVE ChannelLists(_, _)
\* the lists of at most n channels that have at most budget messages together
ChannelLists(n, budget) ==
    IF n = 0 THEN {<<>>}
    ELSE {<<>>} \cup
         UNION {{<<c>> \o rest : rest \in ChannelLists(n - 1, budget - Len(c.messages))} :
                c \in ChannelContents(budget)}

InitTelegram ==
    /\ pc = "call"
    /\ tgCall \in [configured : BOOLEAN,
                   channels : ChannelLists(MaxChannels, MaxMessages),
                   limit_per_channel : {0, 1},
                   whitelist : {<<>>, BRANDS_CONFIG}]
    /\ tgAnswer = TelegramStart
    /\ GateIdle
    /\ ParseIdle
    /\ SearchIdle
    /\ ScoreIdle
    /\ SaleIdle
    /\ BrandIdle
    /\ db = EmptyDb
    /\ BoostIdle

\* all_items.extend(fetch_telegram())
FetchTelegram ==
    /\ pc = "call"
    /\ tgAnswer' = fetch_telegram(tgCall.configured, tgCall.channels,
                                  tgCall.limit_per_channel, tgCall.whitelist)
    /\ pc' = "done"
    /\ UNCHANGED <<boostVars, tgCall, gateVars, parseVars, searchVars, scoreVars, db, saleVars,
                   brandVars>>

NextTelegram == FetchTelegram

SpecTelegram == InitTelegram /\ [][NextTelegram]_vars

\* ------------------------------------------------------------------------
\* One item followed from enrich_text_with_meta to _score_hit
\* ------------------------------------------------------------------------

\* the source names the adapters of integrations/sources put into their items
AdapterSources ==
    {"telegram", "auto.ru", "drom.ru", "avito.ru", "benzclub", "bmwclub", "mock"}

\* the adapters' names, the keys of the ranking's table and the empty name
BoostSources == AdapterSources \cup ForumSources \cup MarketplaceSources \cup {""}

BoostTexts == {ScenarioA, ScenarioB, ScenarioALong, ScenarioAPriceFirst}

InitBoost ==
    /\ pc = "call"
    /\ boostCall \in [source : BoostSources, raw_text : BoostTexts]
    /\ boostAnswer = [ingest |-> None, rank |-> None]
    /\ GateIdle
    /\ ParseIdle
    /\ SearchIdle
    /\ ScoreIdle
    /\ db = EmptyDb
    /\ SaleIdle
    /\ BrandIdle
    /\ TelegramIdle

\* the row run_ingest adds for the item and index_raw_documents reads
ItemRow(call) ==
    [id |-> 1, source |-> call.source, source_url |-> Some("https://bmwclub.ru/1"),
     title |-> <<>>, content |-> enrich_text_with_meta(call.raw_text, call.source),
     fetched_at |-> 0]

\* run_ingest: final_content, _meta = enrich_text_with_meta(raw_text, source)
EnrichItem ==
    /\ pc = "call"
    /\ boostAnswer' = [boostAnswer EXCEPT
                          !.ingest = Some(ItemRow(boostCall).content.meta.val.source_boost)]
    /\ pc' = "indexed"
    /\ UNCHANGED <<boostCall, gateVars, parseVars, searchVars, scoreVars, db, saleVars,
                   brandVars, tgVars>>

\* _score_hit on the payload index_raw_documents built for the row
RankItem ==
    /\ pc = "indexed"
    /\ boostAnswer' = [boostAnswer EXCEPT
                          !.rank = Some(SourceBoost(SourceOrEmpty(
                                            PayloadOf(ItemRow(boostCall)))).boost)]
    /\ pc' = "done"
    /\ UNCHANGED <<boostCall, gateVars, parseVars, searchVars, scoreVars, db, saleVars,
                   brandVars, tgVars>>

NextBoost == EnrichItem \/ RankItem

SpecBoost == InitBoost /\ [][NextBoost]_vars


\* ------------------------------------------------------------------------
\* Claims about the gate (checked under SpecGate)
\* ------------------------------------------------------------------------

\* the text as the rules see it
Norm == normalize_text_for_rules(text.atoms)
GateDone == pc = "done" /\ decision # NoDecision

\* C1: should_skip_doc never lets an exception out: an exception raised in
\* its body (a text that is not a str, a blacklist entry that is not a str)
\* comes back as a skip decision with reason "exception".
C1_GateNeverRaises ==
    GateDone =>
        /\ ~decision.raised
        /\ GateBody(text, blacklist, DEFAULT_MIN_SALE_SCORE).raised
              => decision.skip /\ decision.reason = "exception"

C1_Witness ==
    /\ GateDone
    /\ GateBody(text, blacklist, DEFAULT_MIN_SALE_SCORE).raised
    /\ decision.reason = "exception"

\* C2 as stated: the reason of every decision is one of empty_text,
\* not_sale_intent, ok, exception.
C2_ClosedReasonSet ==
    GateDone => decision.reason \in {"empty_text", "not_sale_intent", "ok", "exception"}

GateReasons ==
    {"empty_text", "blacklist_word", "text_too_short", "price_too_low",
     "price_too_high", "year_too_old", "mileage_too_high",
     "not_sale_and_no_signals", "weak_sale_but_has_signals", "ok", "exception"}

\* C2 amended: the reason of every decision is one of the eleven codes the
\* gate sets: empty_text, blacklist_word, text_too_short, price_too_low,
\* price_too_high, year_too_old, mileage_too_high, not_sale_and_no_signals,
\* weak_sale_but_has_signals, ok, exception; a kept text has reason ok or
\* weak_sale_but_has_signals.
C2_ReasonSetOfGate ==
    GateDone =>
        /\ "reason" \in decision.keys
        /\ decision.reason \in GateReasons
        /\ ~decision.skip => decision.reason \in {"ok", "weak_sale_but_has_signals"}

C2_Witness ==
    GateDone /\ decision.skip /\ decision.reason = "mileage_too_high"

\* C3 as stated: a non-empty text whose sale-intent judgment is false is
\* skipped with reason not_sale_intent, and is never kept.
C3_NoSaleIntentSkipped ==
    (GateDone /\ text.kind = "str" /\ text.atoms # <<>>
       /\ blacklist = NoBlacklist
       /\ ~is_sale_intent(Norm, DEFAULT_MIN_SALE_SCORE))
    => decision.skip /\ decision.reason = "not_sale_intent"

\* C3 amended: a text that passed the blacklist and the min/max rules and
\* whose sale-intent judgment is false is skipped with reason
\* not_sale_and_no_signals when it has no price, year or mileage, and is kept
\* with sale_intent=false and reason weak_sale_but_has_signals when it has
\* one; Scenario B is skipped with reason blacklist_word.
C3_WeakSaleKeptWithSignals ==
    /\ (GateDone /\ text.kind = "str" /\ blacklist = NoBlacklist
          /\ has_blacklist_words(Norm, blacklist) = "False"
          /\ passes_min_max_rules(Norm).ok
          /\ ~is_sale_intent(Norm, DEFAULT_MIN_SALE_SCORE))
       => /\ "sale_intent" \in decision.keys /\ ~decision.sale_intent
          /\ IF has_any_required_signals(Norm)
             THEN ~decision.skip /\ decision.reason = "weak_sale_but_has_signals"
             ELSE decision.skip /\ decision.reason = "not_sale_and_no_signals"
    /\ (GateDone /\ text = Str(ScenarioB) /\ blacklist = NoBlacklist)
       => decision.skip /\ decision.reason = "blacklist_word"

C3_Witness ==
    /\ GateDone /\ text.kind = "str" /\ blacklist = NoBlacklist
    /\ ~is_sale_intent(Norm, DEFAULT_MIN_SALE_SCORE)
    /\ ~decision.skip
    /\ decision.reason = "weak_sale_but_has_signals"

\* the text has a positive sale phrase, no negative phrase, and a price, a
\* model year and a mileage
ListingLike(s) ==
    /\ WordsPresent(Lower(s), POSITIVE_WORDS_RU \o POSITIVE_WORDS_EN) # {}
    /\ WordsPresent(Lower(s), NEGATIVE_WORDS_RU \o NEGATIVE_WORDS_EN) = {}
    /\ extract_quality_signals(s).has_price
    /\ extract_quality_signals(s).has_year
    /\ extract_quality_signals(s).has_mileage

C19_KeptCarriesQualityScore ==
    (GateDone /\ ~decision.raised /\ ~decision.skip)
        => "quality_score" \in decision.keys

\* the text is a str of whitespace only, or the empty str
WhitespaceOnly(t) ==
    t.kind = "str" /\ \A i \in 1..Len(t.atoms) : IsSpace(t.atoms[i])

\* C20: for every text that is empty or consists only of whitespace,
\* should_skip_doc returns skip=true with reason empty_text.
C20_WhitespaceIsEmptyText ==
    (GateDone /\ WhitespaceOnly(text))
        => decision.skip /\ decision.reason = "empty_text"

\* C20 for the empty str alone
C20_EmptyIsEmptyText ==
    (GateDone /\ text = Str(<<>>))
        => decision.skip /\ decision.reason = "empty_text"

\* a whitespace-only text that is not empty is skipped, with the reason of
\* the blacklist rule
C20_WhitespaceIsBlacklistWord ==
    (GateDone /\ WhitespaceOnly(text) /\ text.atoms # <<>>)
        => decision.skip /\ decision.reason = "blacklist_word"

\* ------------------------------------------------------------------------
\* Claims about parse_query (specification SpecParse)
\* ------------------------------------------------------------------------

ParseDone == pc = "done" /\ raw_text # NoneText

\* C5: parse_query never raises: for every query text, also one whose numbers
\* have tabs, newlines or non-breaking spaces between digit groups, the call
\* returns a StructuredQuery.
C5_ParseNeverRaises == ParseDone => ~parsed.raised

\* C6: with a catalog that lists bmw as an exact token of brand bmw, the query
\* "BMW до 50000 км, без окрасов, бензин" parses to brand bmw with confidence
\* 1.0, mileage_max 50000, paint_condition original and fuel petrol.
C6_ScenarioC ==
    (ParseDone /\ raw_text = Str(ScenarioC))
    => /\ ~parsed.raised
       /\ parsed.sq.brand = Some("bmw")
       /\ parsed.sq.brand_confidence = 10
       /\ parsed.sq.mileage_max = Some(50000)
       /\ parsed.sq.paint_condition = Some("original")
       /\ parsed.sq.fuel = Some("petrol")

C6_Witness ==
    /\ ParseDone
    /\ raw_text = Str(ScenarioC)
    /\ ~parsed.raised
    /\ parsed.sq.brand.some
    /\ parsed.sq.mileage_max.some
    /\ parsed.sq.fuel.some

\* the atoms that are a currency or magnitude unit of a price
PriceUnitAtoms == {"rub", "tys", "mln", "dollar"}

\* position i has a number and the next atom that is no whitespace is км
NumberBeforeKm(s, i) ==
    /\ IsDigit(s[i])
    /\ \E j \in (i + 1)..Len(s) :
          /\ s[j] = "km"
          /\ \A k \in (i + 1)..(j - 1) : IsSpace(s[k])

\* the only number-unit pair of the text is a number followed by км
OnlyKmPair(s) ==
    /\ \E i \in 1..Len(s) : NumberBeforeKm(s, i)
    /\ \A i \in 1..Len(s) : s[i] \notin PriceUnitAtoms

\* C17: for a text whose only number-unit pair is a number followed by the
\* distance unit км, parse_price_rub returns no price and parse_query leaves
\* price_max unset.
C17_NoPriceFromKm ==
    ParseDone /\ ~parsed.raised /\ OnlyKmPair(raw_text.atoms)
        => /\ ~parsed.sq.price_max.some
           /\ ~parse_price_rub(raw_text.atoms).some

\* C21: the StructuredQuery parse_query returns stores the input text
\* verbatim, leading and trailing whitespace included, in raw_query; for the
\* empty input every other field is null or empty.
C21_RawTextVerbatim ==
    (ParseDone /\ ~parsed.raised)
        => /\ parsed.sq.raw_query = raw_text.atoms
           /\ raw_text.atoms = <<>> => parsed.sq = StructuredQuery(<<>>)

\* C21 for the texts that neither begin nor end with whitespace
C21_RawTextVerbatimInside ==
    (ParseDone /\ ~parsed.raised /\ Strip(raw_text.atoms) = raw_text.atoms)
        => /\ parsed.sq.raw_query = raw_text.atoms
           /\ raw_text.atoms = <<>> => parsed.sq = StructuredQuery(<<>>)

\* the tokens the rule-based parser loops over
QueryTokens == Tokens(Lower(Strip(raw_text.atoms)))

\* a token that begins with не, without the two letters of the marker
WithoutMarker(t) ==
    IF Head(t) = "ne" THEN Tail(t) ELSE <<"bityy">> \o Tail(t)

InSeq(x, seq) == \E k \in 1..Len(seq) : seq[k] = x

\* C22: for every token of the query that starts with the negation marker не
\* and is longer than the marker, the parser adds the token with the whole
\* marker removed to exclusions, and does not add the token to keywords.
C22_NegationStripped ==
    (ParseDone /\ ~parsed.raised)
        => \A k \in 1..Len(QueryTokens) :
              (StartsWithNe(QueryTokens[k]) /\ StrLen(QueryTokens[k]) > 2)
                  => /\ InSeq(WithoutMarker(QueryTokens[k]), parsed.sq.exclusions)
                     /\ ~InSeq(QueryTokens[k], parsed.sq.keywords)

\* C22 with the first letter of the marker removed, as t[1:] does
C22_NegationFirstLetterDropped ==
    (ParseDone /\ ~parsed.raised)
        => \A k \in 1..Len(QueryTokens) :
              (StartsWithNe(QueryTokens[k]) /\ StrLen(QueryTokens[k]) > 2)
                  => /\ InSeq(TailOfStr(QueryTokens[k]), parsed.sq.exclusions)
                     /\ ~InSeq(WithoutMarker(QueryTokens[k]), parsed.sq.exclusions)
                     /\ ~InSeq(QueryTokens[k], parsed.sq.keywords)

\* position i has a number and the next atom that is no whitespace is $
NumberBeforeDollar(s, i) ==
    /\ IsDigit(s[i])
    /\ \E j \in (i + 1)..Len(s) :
          /\ s[j] = "dollar"
          /\ \A k \in (i + 1)..(j - 1) : IsSpace(s[k])

\* the only price mention of the text is a number with the symbol $: no
\* other unit, and no км, follows a number
OnlyDollarPrice(s) ==
    /\ \E i \in 1..Len(s) : NumberBeforeDollar(s, i)
    /\ \A i \in 1..Len(s) : s[i] \notin {"rub", "tys", "mln", "km"}

\* C23: a price written with a foreign-currency symbol is left unparsed:
\* parse_price_rub returns no price for it and parse_query leaves price_max
\* unset for a query whose only price mention uses such a symbol.
C23_ForeignCurrencyUnparsed ==
    (ParseDone /\ ~parsed.raised /\ OnlyDollarPrice(raw_text.atoms))
        => /\ ~parse_price_rub(raw_text.atoms).some
           /\ ~parsed.sq.price_max.some

\* C23 for parse_price_rub alone
C23_PriceRubUnparsed ==
    (ParseDone /\ OnlyDollarPrice(raw_text.atoms))
        => ~parse_price_rub(raw_text.atoms).some

\* the text names no distance unit
NoDistanceUnit(s) == \A i \in 1..Len(s) : s[i] # "km"

\* C24: parse_query sets mileage_max only from an "up to" number that is
\* followed by a distance unit: a query whose only до <N> mention is a price
\* in thousands (до <N> тыс руб) leaves mileage_max unset.
C24_MileageNeedsDistanceUnit ==
    (ParseDone /\ ~parsed.raised /\ NoDistanceUnit(raw_text.atoms))
        => ~parsed.sq.mileage_max.some

\* C24 for the query до 500 тыс руб
C24_PriceInThousands ==
    (ParseDone /\ raw_text = Str(PriceInThousands))
        => ~parsed.raised /\ ~parsed.sq.mileage_max.some

\* a text that has neither км nor тыс gets no mileage_max
C24_MileageNeedsKmOrTys ==
    (ParseDone /\ ~parsed.raised /\ NoDistanceUnit(raw_text.atoms)
       /\ \A i \in 1..Len(raw_text.atoms) : raw_text.atoms[i] # "tys")
        => ~parsed.sq.mileage_max.some

\* ------------------------------------------------------------------------
\* Claims about SearchService.search (specification SpecSearch)
\* ------------------------------------------------------------------------

SearchDone == pc = "done" /\ storeAnswer.ok
Hits == storeAnswer.hits
Results == response.results

\* the hits that carry the url and the source name of result r
BuildersOf(r) ==
    {k \in 1..Len(Hits) :
        /\ Hits[k].payload.url = Some(r.source_url)
        /\ SourceName(Hits[k].payload) = r.source_name}

\* position in the store's answer of the hit result r was built from
ArrivalIndex(r) == CHOOSE k \in BuildersOf(r) : \A m \in BuildersOf(r) : k <= m

\* C7: search called with a StructuredQuery that parse_query produced returns
\* a list and raises nothing, whatever the hits carry; with zero hits the list
\* is empty.
C7_SearchNeverRaises ==
    (pc = "done" /\ ~structuredArg.has_region)
    => /\ ~response.raised
       /\ (~storeAnswer.ok \/ Hits = <<>>) => Results = <<>>

\* C8: the returned list has at most MAX_RESULTS_PER_SOURCE results of one
\* source name, however many hits with distinct urls the source has; a result
\* of a hit without a source name has the source name unknown.
C8_SourceCap ==
    (SearchDone /\ ~response.raised)
    => /\ \A i \in 1..Len(Results) :
            Cardinality({j \in 1..Len(Results) :
                            Results[j].source_name = Results[i].source_name})
                <= MAX_RESULTS_PER_SOURCE
       /\ \A i \in 1..Len(Results) :
            /\ BuildersOf(Results[i]) # {}
            /\ Results[i].source_name # ""
            /\ (\A k \in 1..Len(Hits) :
                    Hits[k].payload.url = Some(Results[i].source_url)
                    => ~PresentStr(Hits[k].payload.source))
               => Results[i].source_name = "unknown"

\* more than the cap of hits of one source, with distinct urls, and the cap's
\* count of them returned; one such source is the source unknown
C8_Witness ==
    /\ SearchDone
    /\ ~response.raised
    /\ \E i \in 1..Len(Results) :
          /\ Results[i].source_name = "unknown"
          /\ Cardinality({j \in 1..Len(Results) : Results[j].source_name = "unknown"})
                = MAX_RESULTS_PER_SOURCE
          /\ Cardinality({Hits[k].payload.url : k \in
                            {m \in 1..Len(Hits) : ~PresentStr(Hits[m].payload.source)}})
                > MAX_RESULTS_PER_SOURCE

\* C9: no two results share a source_url, and the result of a url is built
\* from the first hit that carries the url; a later hit with the url builds
\* no result.
C9_FirstHitPerUrl ==
    (SearchDone /\ ~response.raised)
    => /\ \A i, j \in 1..Len(Results) :
            Results[i].source_url = Results[j].source_url => i = j
       /\ \A i \in 1..Len(Results) :
            \A k \in 1..Len(Hits) :
                (/\ Hits[k].payload.url = Some(Results[i].source_url)
                 /\ \A m \in 1..(k - 1) :
                        Hits[m].payload.url # Some(Results[i].source_url))
                => /\ Results[i].source_name = SourceName(Hits[k].payload)
                   /\ Results[i].brand = Hits[k].payload.brand
                   /\ Results[i].price = Hits[k].payload.price
                   /\ Results[i].mileage = Hits[k].payload.mileage

\* C10: the returned list is ordered by non-increasing score, and results of
\* equal score are in the order in which their hits arrived.
C10_SortedStable ==
    (SearchDone /\ ~response.raised)
    => \A i, j \in 1..Len(Results) :
          i < j => /\ Results[i].score >= Results[j].score
                   /\ Results[i].score = Results[j].score
                      => ArrivalIndex(Results[i]) < ArrivalIndex(Results[j])

\* two results of equal score, and a result that the sort moved before a
\* result whose hit arrived earlier
C10_Witness ==
    /\ SearchDone
    /\ ~response.raised
    /\ \E i, j \in 1..Len(Results) :
          /\ i < j
          /\ Results[i].score = Results[j].score
          /\ ArrivalIndex(Results[i]) < ArrivalIndex(Results[j])
    /\ \E i, j \in 1..Len(Results) :
          /\ i < j
          /\ Results[i].score > Results[j].score
          /\ ArrivalIndex(Results[i]) > ArrivalIndex(Results[j])

\* the answer of the store is a pair of candidates with one semantic score
\* and payloads that differ in source and url only, the source of one a forum
\* and the source of the other a marketplace
IsScenarioD ==
    /\ Len(Hits) = 2
    /\ Hits[1].score = Hits[2].score
    /\ [Hits[1].payload EXCEPT !.url = NoneStr, !.source = NoneStr]
         = [Hits[2].payload EXCEPT !.url = NoneStr, !.source = NoneStr]
    /\ \E i, j \in 1..2 :
          /\ PresentStr(Hits[i].payload.source) /\ PresentStr(Hits[j].payload.source)
          /\ Hits[i].payload.source.val \in ForumSources
          /\ Hits[j].payload.source.val \in MarketplaceSources
    /\ PresentStr(Hits[1].payload.url) /\ PresentStr(Hits[2].payload.url)
    /\ Hits[1].payload.url # Hits[2].payload.url

\* both candidates are results and the one of the forum comes first
ForumFirst ==
    /\ Len(Results) = 2
    /\ Results[1].source_name \in ForumSources
    /\ Results[2].source_name \in MarketplaceSources

UrlsOf(r) == [i \in 1..Len(r.results) |-> r.results[i].source_url]

\* C11: two invocations of search on the identical hit sequence and the
\* identical structured query return the same ordered sequence of results,
\* whatever the wall-clock time of each invocation.
C11_SameOrderAtAnyTime ==
    pc = "again" /\ response.raised = FALSE => UrlsOf(response) = UrlsOf(previous)

\* ------------------------------------------------------------------------
\* Claims about _score_hit (checked under SpecScore)
\* ------------------------------------------------------------------------

\* the payload has a created_at_ts that _score_hit reads
HasTs(args) == args.payload.created.kind = "ts"

\* the payload has no created_at_ts and a created_at that is a timestamp
HasCreatedAt(args) == args.payload.created.kind \in {"iso", "aware"}

\* a and b carry their timestamp in the same field and a's is more recent
MoreRecent(a, b) ==
    /\ (HasTs(a) /\ HasTs(b)) \/ (HasCreatedAt(a) /\ HasCreatedAt(b))
    /\ a.payload.created.day > b.payload.created.day

\* C12: of two candidates scored at the same instant that differ in their
\* timestamp only, the one with the more recent created_at_ts (or created_at)
\* never gets a lower final score.
C12_RecencyMonotone ==
    pc = "done" /\ MoreRecent(scoreCall.a, scoreCall.b)
        => scores.a.score >= scores.b.score

\* the same for timestamps _score_hit can read: created_at_ts, or created_at
\* without a UTC offset
C12_RecencyMonotoneNaive ==
    pc = "done" /\ MoreRecent(scoreCall.a, scoreCall.b)
                /\ scoreCall.a.payload.created.kind # "aware"
        => scores.a.score >= scores.b.score

\* the price bonus, with its reason, went to a candidate above the ceiling
PriceBonusAbove(args, scored) ==
    /\ InSeq("price_match", scored.reasons)
    /\ args.payload.price.val > args.sq.price_max.val

\* the mileage bonus, with its reason, went to a candidate above the ceiling
MileageBonusAbove(args, scored) ==
    /\ InSeq("mileage_match", scored.reasons)
    /\ args.payload.mileage.val > args.sq.mileage_max.val

\* C26: _score_hit gives the price bonus, with the reason price_match, only
\* to a candidate whose price is at most the query's price_max, and the
\* mileage bonus, with mileage_match, only to one whose mileage is at most
\* mileage_max.
C26_BonusWithinCeiling ==
    pc = "done" /\ scores # <<>>
        => /\ ~PriceBonusAbove(scoreCall.a, scores.a)
           /\ ~MileageBonusAbove(scoreCall.a, scores.a)

\* the reasons are given exactly when the query has the ceiling and the
\* payload the value, whatever their order
C26_BonusWhenBothPresent ==
    pc = "done" /\ scores # <<>>
        => /\ InSeq("price_match", scores.a.reasons)
              <=> (PresentInt(scoreCall.a.sq.price_max)
                   /\ PresentInt(scoreCall.a.payload.price))
           /\ InSeq("mileage_match", scores.a.reasons)
              <=> (PresentInt(scoreCall.a.sq.mileage_max)
                   /\ PresentInt(scoreCall.a.payload.mileage))

\* ------------------------------------------------------------------------
\* Claims about is_sale_intent (checked under SpecSale)
\* ------------------------------------------------------------------------

SaleDone == pc = "done"

\* the phrases of a dictionary, as a set
PhraseSet(dict) == {dict[k] : k \in 1..Len(dict)}

\* how many phrases of the dictionary are present in t
PhrasesPresent(t, dict) == Cardinality({w \in PhraseSet(dict) : HasPhrase(t, w)})

\* a currency or thousands unit as a token of its own
IsPriceUnitToken(a) == a \in {"rub", "tys", "dollar"}

\* the number n of t is directly followed, or followed after one whitespace,
\* by a currency or thousands unit
UnitTokenAfter(t, n) ==
    /\ n.bounded
    /\ n.digits >= 3
    /\ \/ n.last + 1 <= Len(t) /\ IsPriceUnitToken(t[n.last + 1])
       \/ /\ n.last + 2 <= Len(t)
          /\ IsSpace(t[n.last + 1])
          /\ IsPriceUnitToken(t[n.last + 2])

\* a price signal: a number of three or more digits with its unit
PriceSignal(t) == \E i \in 1..Len(t) : UnitTokenAfter(t, NumberAt(t, i))

\* 2 P + S - 2 N of the lower-cased text t, S given
SaleTotal(t, s_present) ==
    2 * PhrasesPresent(t, POSITIVE_WORDS_RU \o POSITIVE_WORDS_EN)
    + (IF s_present THEN 1 ELSE 0)
    - 2 * PhrasesPresent(t, NEGATIVE_WORDS_RU \o NEGATIVE_WORDS_EN)

\* C18: is_sale_intent(text, min_score) returns true exactly when
\* 2 P + S - 2 N >= min_score, P and N the numbers of positive and negative
\* phrases present in the lower-cased text and S 1 when a price signal (a
\* number with a currency or thousands unit) is present; false for empty text.
C18_SaleIntentFormula ==
    SaleDone =>
        saleAnswer = (/\ saleCall.text # <<>>
                      /\ SaleTotal(Lower(saleCall.text), PriceSignal(Lower(saleCall.text)))
                            >= saleCall.min_score)

\* C18 with the price signal read as a match of PRICE_PATTERN, whose unit
\* alternative к also matches the first letter of км
C18_SaleIntentFormulaPattern ==
    SaleDone =>
        saleAnswer = (/\ saleCall.text # <<>>
                      /\ SaleTotal(Lower(saleCall.text), PRICE_PATTERN(Lower(saleCall.text)))
                            >= saleCall.min_score)

\* ------------------------------------------------------------------------
\* Claims about brand matching (checked under SpecBrand)
\* ------------------------------------------------------------------------

BrandDone == pc = "done" /\ brandCall.fn # ""

\* the tier, in tenths, at which the text of the call matches entry k of the
\* catalog: 10 word-bounded exact token, 8 alias, 6 substring, 0 none
TierOfEntry(k) == BrandTier(Lower(brandCall.text), brandCall.catalog[k])

\* the highest tier at which any entry matches
BestTier ==
    IF \E k \in 1..Len(brandCall.catalog) : TierOfEntry(k) = 10 THEN 10
    ELSE IF \E k \in 1..Len(brandCall.catalog) : TierOfEntry(k) = 8 THEN 8
    ELSE IF \E k \in 1..Len(brandCall.catalog) : TierOfEntry(k) = 6 THEN 6
    ELSE 0

\* the first entry, in catalog order, that matches at the highest tier
BestEntry ==
    CHOOSE k \in 1..Len(brandCall.catalog) :
        /\ TierOfEntry(k) = BestTier
        /\ \A m \in 1..(k - 1) : TierOfEntry(m) # BestTier

\* C25: brand matching returns the brand that matches the text at the
\* highest-priority tier (exact 1.0 before alias 0.8 before substring 0.6);
\* catalog order decides only among the brands matching at that tier.
C25_HighestTierWins ==
    BrandDone =>
        IF BestTier = 0 THEN ~brandAnswer.brand.some
        ELSE /\ brandAnswer.brand = Some(brandCall.catalog[BestEntry].brand)
             /\ brandAnswer.confidence = BestTier

\* C25 for _extract_brand alone
C25_ExtractBrandHighestTierWins ==
    (BrandDone /\ brandCall.fn = "_extract_brand") => C25_HighestTierWins

\* C25 for a catalog of one brand and _extract_brand
C25_OneBrandCatalog ==
    (BrandDone /\ brandCall.fn = "_extract_brand" /\ Len(brandCall.catalog) = 1)
        => C25_HighestTierWins

\* _extract_brand returns the first entry of the catalog that matches at any
\* tier
C25_FirstEntryWins ==
    BrandDone =>
        \A k \in 1..Len(brandCall.catalog) :
            (/\ brandAnswer.brand = Some(brandCall.catalog[k].brand)
             /\ brandCall.fn = "_extract_brand")
                => \A m \in 1..(k - 1) : TierOfEntry(m) = 0

\* ------------------------------------------------------------------------
\* Claims about fetch_telegram (checked under SpecTelegram)
\* ------------------------------------------------------------------------

TelegramDone == pc = "done" /\ tgCall.configured

\* the filter's verdict on the content of a returned item
ItemValid(item) == is_valid_telegram_post(item.content, tgCall.whitelist).ok

\* the messages of channel c that the call read
ReadMessages(c) ==
    Limited(tgCall.channels[c].messages, LimitOrDefault(tgCall.limit_per_channel))

\* message n of channel c has a text that fails the filter
FailsFilter(c, n) ==
    /\ ReadMessages(c)[n].kind = "text"
    /\ ~is_valid_telegram_post(Strip(ReadMessages(c)[n].content), tgCall.whitelist).ok

\* C27: every item fetch_telegram returns has a text for which
\* is_valid_telegram_post returns ok=True; a message whose text fails the
\* filter is never returned.
C27_OnlyValidPostsReturned ==
    TelegramDone =>
        /\ \A k \in 1..Len(tgAnswer.results) : ItemValid(tgAnswer.results[k])
        /\ \A c \in 1..Len(tgCall.channels) :
              \A n \in 1..Len(ReadMessages(c)) :
                  FailsFilter(c, n)
                      => \A k \in 1..Len(tgAnswer.results) :
                            tgAnswer.results[k].source_url # <<c, n>>

\* every message that has a text is returned, whatever the filter says, and
\* the messages without text are the ones counted as skipped
C27_EveryTextReturned ==
    TelegramDone =>
        \A c \in 1..Len(tgCall.channels) :
            ~tgCall.channels[c].fails
                => \A n \in 1..Len(ReadMessages(c)) :
                      (ReadMessages(c)[n].kind = "text")
                          <=> \E k \in 1..Len(tgAnswer.results) :
                                 tgAnswer.results[k].source_url = <<c, n>>

\* ------------------------------------------------------------------------
\* Claims about the ingestion paths (checked under SpecIngest)
\* ------------------------------------------------------------------------

\* the source_url values for which should_skip_doc returned skip=false
KeptUrls == {e.url : e \in {x \in db.log : ~x.skip}}

\* the ids of the points index_raw_documents built
RowPointIds == {id \in DOMAIN db.collection : id >= 1}

\* C14: in every ingestion path (run_ingest, the ingest worker's save_items,
\* demo_seed) a record is added to RawDocument or handed to the indexer only
\* after should_skip_doc was invoked on it and returned skip=false.
C14_GateBeforeStorage ==
    /\ \A i \in 1..Len(db.table) : db.table[i].source_url \in KeptUrls
    /\ \A id \in RowPointIds : db.collection[id].url \in KeptUrls

\* the urls should_skip_doc kept with sale_intent=true
SaleKeptUrls == {e.url.val : e \in {x \in db.log : ~x.skip /\ x.sale_intent}}

Has(seq, x) == \E i \in 1..Len(seq) : seq[i] = x

\* C15: a document the gate kept with sale_intent=true during run_ingest and
\* index_raw_documents indexed is, when returned as a candidate, given the
\* sale-intent uplift by _score_hit, not the penalty.
C15_SaleIntentReachesRanking ==
    pc = "done" =>
        \A i \in 1..Len(response.results) :
            response.results[i].source_url \in SaleKeptUrls
                => Has(response.results[i].why_match, "sale_intent=true")

\* C16: every payload stored through QdrantStore.upsert has an integer
\* created_at_ts and the created_at_source tag 'source' or 'ingested', no
\* other tag value.
C16_CreatedAtTag ==
    \A id \in DOMAIN db.collection :
        /\ db.collection[id].created.kind = "ts"
        /\ db.collection[id].created_at_source.some
        /\ db.collection[id].created_at_source.val \in {"source", "ingested"}

\* the same for the points of callers that set no tag of their own
C16_CreatedAtTagDirect ==
    \A id \in DOMAIN db.collection \ RowPointIds :
        /\ db.collection[id].created.kind = "ts"
        /\ db.collection[id].created_at_source.some
        /\ db.collection[id].created_at_source.val \in {"source", "ingested"}

\* C28: when the configured embedding provider fails for a document with
\* non-empty text, embed_text falls back to the deterministic embedding and
\* index_raw_documents still indexes the document: under no provider does a
\* failure leave the document out of the upserted points.
C28_ProviderFailureStillIndexed ==
    \A w \in db.warned : w.doc \in DOMAIN db.collection

\* the same for the one provider whose vectors have the length of the
\* fallback
C28_DeterministicFailureStillIndexed ==
    \A w \in db.warned :
        w.provider = "deterministic" => w.doc \in DOMAIN db.collection

\* the counter of the last run of the loop, after each of its statements
\* that changed it
StatsAt(i) == db.snaps[i]

\* the counter as stats.log printed it after the loop
FinalStats == db.snaps[Len(db.snaps)]

\* C29: at every point of a run_ingest run the SkipStats counter has
\* total = kept + skipped and skipped = the sum of the by_reason counts,
\* and at the end total is the number of items the anti-noise loop
\* processed.
C29_StatsConsistent ==
    /\ \A i \in 1..Len(db.snaps) :
          /\ StatsAt(i).total = StatsAt(i).kept + StatsAt(i).skipped
          /\ StatsAt(i).skipped = BagCardinality(StatsAt(i).by_reason)
    /\ db.snaps # <<>> => FinalStats.total = db.processed

\* what holds of the counter: skipped is the sum of the by_reason counts,
\* kept + skipped is the number of items whose loop body has ended, and
\* total counts each of these items twice and the item being processed once
C29_TotalCountsTwice ==
    /\ \A i \in 1..Len(db.snaps) :
          /\ StatsAt(i).skipped = BagCardinality(StatsAt(i).by_reason)
          /\ StatsAt(i).total - 2 * (StatsAt(i).kept + StatsAt(i).skipped) \in {0, 1}
    /\ db.snaps # <<>> =>
          /\ FinalStats.kept + FinalStats.skipped = db.processed
          /\ FinalStats.total = 2 * db.processed

\* ------------------------------------------------------------------------
\* Claims about the two source boosts (checked under SpecBoost)
\* ------------------------------------------------------------------------

\* the item was enriched at ingest time and scored at rank time
BoostDone == pc = "done" /\ boostAnswer.ingest.some /\ boostAnswer.rank.some

\* the adapters of the two forums, and the adapter whose name neither
\* function knows
ForumAdapters == {"benzclub", "bmwclub"}
UnknownAdapters == {"mock"}

\* C30: the ingest-time and the rank-time source boost agree: for every
\* source name an adapter emits, resolve_source_boost(source) is the boost
\* _score_hit applies to a payload with that source, 1.5 for the forum
\* sources and the neutral 1.0 for an unknown source.
C30_SourceBoostsAgree ==
    (BoostDone /\ boostCall.source \in AdapterSources) =>
        /\ boostAnswer.ingest = boostAnswer.rank
        /\ boostCall.source \in ForumAdapters => boostAnswer.rank.val = 30
        /\ boostCall.source \in UnknownAdapters => boostAnswer.ingest.val = 20

\* the two boosts agree for the names that are keys of the ranking's table
\* and for the empty name
C30_AgreeOnTableKeys ==
    (BoostDone /\ boostCall.source \notin ForumAdapters \cup UnknownAdapters) =>
        boostAnswer.ingest = boostAnswer.rank

\* for the forum adapters' names ingest writes 1.5 and the ranking applies
\* 1.0; for the unknown name ingest writes 0.8 and the ranking applies 1.0
C30_AdapterNamesDisagree ==
    BoostDone =>
        /\ boostCall.source \in ForumAdapters =>
              boostAnswer.ingest.val = 30 /\ boostAnswer.rank.val = 20
        /\ boostCall.source \in UnknownAdapters =>
              boostAnswer.ingest.val = 16 /\ boostAnswer.rank.val = 20

====
